---- MODULE Spec2Model ----
(***************************************************************************)
(* OptimalSwipe: the persistent store (src/src/storage.js), the file-link  *)
(* sync manager (same file) and the recommendation engine                  *)
(* (src/src/engine.js).                                                    *)
(*                                                                         *)
(* The specifications share the variables:                                *)
(*   Spec        the key-value store: get/set/delete/clearAllData, with a  *)
(*               legacy localStorage and a primary IndexedDB backend that  *)
(*               may throw on any call;                                    *)
(*   BackupSpec  exportData and importData over all the app's keys;        *)
(*   SyncSpec    the linked backup file: link, unlink, sync, pull and the  *)
(*               external-change check, with a clock and a file system;    *)
(*   LinkSpec    link and unlink in a browser whose file-picker support    *)
(*               may change between calls, the primary backend throwing;   *)
(*   PullSpec    a native linked file that another program rewrites while  *)
(*               the user logs payments, syncs and pulls;                  *)
(*   LiveSpec    the handlers that change cards and payments, and Sync;    *)
(*   FlakySpec   pull and import while writes to the primary backend fail; *)
(*   AlertSpec   a linked file that no other program touches;              *)
(*   FocusSpec   a pull on focus interleaving with a payment handler;      *)
(*   BatchSpec   processBatchImport on batches of wallet transactions;     *)
(*   RaceSpec    storage.get calls interleaving at their awaits;           *)
(*   WriteRaceSpec  storage.get and storage.set calls interleaving;        *)
(*   EngineSpec  getRecommendation applied to bounded wallets, payment     *)
(*               histories and purchases;                                  *)
(*   CapSpec     getRecommendation on tiers with combinedCap set or not;   *)
(*   MatchSpec   getRecommendation on one tier and purchases that vary in  *)
(*               method, portal, category and merchant;                    *)
(*   SpendSpec   getSpendingByCardAndPeriod around the window starts.      *)
(***************************************************************************)
EXTENDS Integers, Sequences, FiniteSets, TLC

VARIABLES
    idb,        \* IndexedDB (idb-keyval) entries of the app entities: key -> value
    ls,         \* localStorage: key -> string (legacy values and "migrated_" flags)
    handle,     \* idb entry 'backup_file_handle' (NoHandle when absent)
    fallbackName, \* idb entry 'backup_file_name_fallback' (NoName when absent)
    info,       \* idb entry 'last_backup_info' (NoInfo when absent)
    pullTime,   \* idb entry 'last_pull_time' (0 when absent)
    now,        \* Date.now()
    file,       \* the file behind the native handle, as the file system holds it
    last,       \* what the most recent call returned or produced
    eng,        \* the engine's input and its result
    calls,      \* the calls in flight, where calls interleave
    mem         \* the lists main.js holds in memory, where handlers interleave

vars == <<idb, ls, handle, fallbackName, info, pullTime, now, file, last, eng, calls, mem>>

(***************************************************************************)
(* JavaScript values. Every value is a record of the same shape so that    *)
(* any two can be compared.                                                *)
(***************************************************************************)
Undefined == [t |-> "undefined", b |-> FALSE, l |-> <<>>]
Null      == [t |-> "null", b |-> FALSE, l |-> <<>>]
Bool(x)   == [t |-> "boolean", b |-> x, l |-> <<>>]
List(s)   == [t |-> "array", b |-> FALSE, l |-> s]

\* the largest payment / card id that occurs in a stored list
MaxItem == 1

RECURSIVE Down(_)
Down(n) == IF n = 0 THEN <<>> ELSE <<n>> \o Down(n - 1)

\* lists are newest-first (unshift): <<>>, <<1>>, <<2, 1>>, ...
Lists == {List(Down(n)) : n \in 0..MaxItem}
Bools == {Bool(TRUE), Bool(FALSE)}
JsonValues == Lists \cup Bools \cup {Null}

\* JavaScript truthiness (the operand of ||, ! and if)
Truthy(v) ==
    CASE v.t = "undefined" -> FALSE
      [] v.t = "null"      -> FALSE
      [] v.t = "boolean"   -> v.b
      [] OTHER             -> TRUE

\* a || b
OrElse(a, b) == IF Truthy(a) THEN a ELSE b

(***************************************************************************)
(* JSON.stringify and JSON.parse on the values above. The text is a        *)
(* string; parsing a string that is no JSON text throws.                   *)
(***************************************************************************)
RECURSIVE Elems(_)
Elems(s) ==
    IF s = <<>> THEN ""
    ELSE IF Len(s) = 1 THEN ToString(s[1])
    ELSE ToString(s[1]) \o "," \o Elems(Tail(s))

Stringify(v) ==
    CASE v.t = "undefined" -> "undefined"   \* setItem coerces undefined to this
      [] v.t = "null"      -> "null"
      [] v.t = "boolean"   -> IF v.b THEN "true" ELSE "false"
      [] OTHER             -> "[" \o Elems(v.l) \o "]"

IsJson(s) == \E v \in JsonValues : Stringify(v) = s
Parse(s)  == CHOOSE v \in JsonValues : Stringify(v) = s

(***************************************************************************)
(* The two backends.                                                       *)
(***************************************************************************)
\* the entities the app keeps in the store
ListKeys == {"cards", "payments", "userPresets"}
FlagKeys == {"onboardingCompleted", "biometricEnabled"}
AppKeys  == ListKeys \cup FlagKeys

\* the values the app writes under a key
ValuesOf(k) == IF k \in ListKeys THEN Lists ELSE Bools

\* idb-keyval get / set / del on the entries of idb
idbGet(db, k)    == IF k \in DOMAIN db THEN db[k] ELSE Undefined
idbSet(db, k, v) == [x \in DOMAIN db \cup {k} |-> IF x = k THEN v ELSE db[x]]
idbDel(db, k)    == [x \in DOMAIN db \ {k} |-> db[x]]

\* localStorage.getItem(k) !== null, setItem, removeItem
hasItem(l, k)    == k \in DOMAIN l
setItem(l, k, s) == [x \in DOMAIN l \cup {k} |-> IF x = k THEN s ELSE l[x]]
removeItem(l, k) == [x \in DOMAIN l \ {k} |-> l[x]]

migratedKey(key) == "migrated_" \o key

\* the part of the state the storage helper reads and writes
Store == [idb |-> idb, ls |-> ls, handle |-> handle, fallbackName |-> fallbackName,
          info |-> info, pullTime |-> pullTime]

\* the outcome of a call: the state it leaves, what it returned, whether it threw
Out(st, ret, threw) == [st |-> st, ret |-> ret, threw |-> threw]

(***************************************************************************)
(* storage.get(key). fail: the primary backend throws on the one call      *)
(* this get makes (set on the migration path, get otherwise).              *)
(***************************************************************************)
\* the catch block: read the legacy store directly
getFallback(st, key) ==
    IF hasItem(st.ls, key) /\ st.ls[key] # ""
    THEN IF IsJson(st.ls[key]) THEN Out(st, Parse(st.ls[key]), FALSE)
                               ELSE Out(st, Undefined, TRUE)
    ELSE Out(st, Null, FALSE)

\* storage.get that migrates without recording the migration flag
storageGetNoFlag(st, key, fail) ==
    LET isMigrated == hasItem(st.ls, migratedKey(key)) /\ st.ls[migratedKey(key)] # ""
    IN  IF ~isMigrated /\ hasItem(st.ls, key)
        THEN IF ~IsJson(st.ls[key]) \/ fail
             THEN getFallback(st, key)
             ELSE Out([st EXCEPT !.idb = idbSet(st.idb, key, Parse(st.ls[key]))],
                      Parse(st.ls[key]), FALSE)
        ELSE IF fail THEN getFallback(st, key)
             ELSE Out(st, idbGet(st.idb, key), FALSE)

\* storage.get that records the migration flag before the primary write
storageGetEarlyFlag(st, key, fail) ==
    LET isMigrated == hasItem(st.ls, migratedKey(key)) /\ st.ls[migratedKey(key)] # ""
        flagged    == [st EXCEPT !.ls = setItem(st.ls, migratedKey(key), "true")]
    IN  IF ~isMigrated /\ hasItem(st.ls, key)
        THEN IF ~IsJson(st.ls[key]) THEN getFallback(st, key)
             ELSE IF fail THEN getFallback(flagged, key)
             ELSE Out([flagged EXCEPT !.idb = idbSet(st.idb, key, Parse(st.ls[key]))],
                      Parse(st.ls[key]), FALSE)
        ELSE IF fail THEN getFallback(st, key)
             ELSE Out(st, idbGet(st.idb, key), FALSE)

storageGet(st, key, fail) ==
    LET isMigrated == hasItem(st.ls, migratedKey(key)) /\ st.ls[migratedKey(key)] # ""
    IN  IF ~isMigrated /\ hasItem(st.ls, key)
        THEN IF ~IsJson(st.ls[key]) \/ fail
             THEN getFallback(st, key)
             ELSE LET parsedValue == Parse(st.ls[key])
                  IN  Out([st EXCEPT !.idb = idbSet(st.idb, key, parsedValue),
                                     !.ls  = setItem(st.ls, migratedKey(key), "true")],
                          parsedValue, FALSE)
        ELSE IF fail THEN getFallback(st, key)
             ELSE Out(st, idbGet(st.idb, key), FALSE)

(***************************************************************************)
(* storage.set(key, value) and storage.delete(key)                         *)
(***************************************************************************)
\* storage.set that does not record the migration flag
storageSetNoFlag(st, key, value, fail) ==
    IF ~fail
    THEN Out([st EXCEPT !.idb = idbSet(st.idb, key, value)], Bool(TRUE), FALSE)
    ELSE Out([st EXCEPT !.ls = setItem(st.ls, key, Stringify(value))], Bool(FALSE), FALSE)

\* storage.set that records the migration flag on the failure path as well
storageSetFlagOnFail(st, key, value, fail) ==
    IF ~fail
    THEN Out([st EXCEPT !.idb = idbSet(st.idb, key, value),
                        !.ls  = setItem(st.ls, migratedKey(key), "true")],
             Bool(TRUE), FALSE)
    ELSE Out([st EXCEPT !.ls = setItem(setItem(st.ls, migratedKey(key), "true"),
                                       key, Stringify(value))],
             Bool(FALSE), FALSE)

storageSet(st, key, value, fail) ==
    IF ~fail
    THEN Out([st EXCEPT !.idb = idbSet(st.idb, key, value),
                        !.ls  = setItem(st.ls, migratedKey(key), "true")],
             Bool(TRUE), FALSE)
    ELSE Out([st EXCEPT !.ls = setItem(st.ls, key, Stringify(value))],
             Bool(FALSE), FALSE)

\* storage.delete that leaves the legacy value in localStorage
storageDeleteKeepLegacy(st, key, fail) ==
    IF ~fail
    THEN Out([st EXCEPT !.idb = idbDel(st.idb, key),
                        !.ls  = removeItem(st.ls, migratedKey(key))],
             Bool(TRUE), FALSE)
    ELSE Out(st, Bool(FALSE), FALSE)

storageDelete(st, key, fail) ==
    IF ~fail
    THEN Out([st EXCEPT !.idb = idbDel(st.idb, key),
                        !.ls  = removeItem(removeItem(st.ls, migratedKey(key)), key)],
             Bool(TRUE), FALSE)
    ELSE Out(st, Bool(FALSE), FALSE)

(***************************************************************************)
(* Backup bookkeeping and the backup document.                             *)
(***************************************************************************)
NoHandle == <<>>
NoName   == ""
NoInfo   == <<>>

\* storage.updateBackupInfo(paymentCount, lastModified): one raw idb set
BackupInfo(t, paymentCount, lastModified) ==
    <<[lastBackupTime |-> t, transactionCountAtBackup |-> paymentCount,
       fileLastModified |-> lastModified]>>

\* an updateBackupInfo that records no transactions
updateBackupInfoNoCount(st, paymentCount, lastModified, t) ==
    [st EXCEPT !.info = BackupInfo(t, 0, lastModified)]

updateBackupInfo(st, paymentCount, lastModified, t) ==
    [st EXCEPT !.info = BackupInfo(t, paymentCount, lastModified)]

\* value.length
Length(v) == Len(v.l)

\* A JSON document as text: the top-level fields present, each with the
\* text of its value. ok = FALSE is a text that JSON.parse rejects.
Doc(fields, t) == [ok |-> TRUE, version |-> "2.0.0", exportDate |-> t, fields |-> fields]
BadDoc == [ok |-> FALSE, version |-> "", exportDate |-> 0, fields |-> <<>>]
NoDoc  == [ok |-> FALSE, version |-> "none", exportDate |-> 0, fields |-> <<>>]

\* data[key] after JSON.parse(text)
Field(doc, key) == IF key \in DOMAIN doc.fields THEN Parse(doc.fields[key]) ELSE Undefined

exportKeys == <<"cards", "payments", "userPresets", "biometricEnabled">>
syncKeys   == <<"cards", "payments", "userPresets", "onboardingCompleted", "biometricEnabled">>

\* for (const key of allKeys) data[key] = await this.get(key) || [];
\* F: the keys on which the primary backend throws during this call.
RECURSIVE collect(_, _, _, _)
collect(st, allKeys, F, data) ==
    IF allKeys = <<>> THEN [st |-> st, data |-> data, threw |-> FALSE]
    ELSE LET key == Head(allKeys)
             g   == storageGet(st, key, key \in F)
         IN  IF g.threw THEN [st |-> g.st, data |-> data, threw |-> TRUE]
             ELSE collect(g.st, Tail(allKeys), F,
                          [x \in DOMAIN data \cup {key} |->
                              IF x = key THEN Stringify(OrElse(g.ret, List(<<>>)))
                              ELSE data[x]])

\* storage.exportData(): the document handed to the browser as a download
exportData(st, F, t) ==
    LET c == collect(st, exportKeys, F, <<>>)
    IN  [st |-> c.st, threw |-> FALSE,
         doc |-> IF c.threw THEN NoDoc ELSE Doc(c.data, t)]

(***************************************************************************)
(* storage.importData(file)                                                *)
(***************************************************************************)
\* an import step that empties the entity when the document lacks it
setIfOrClear(st, cond, key, value, F) ==
    storageSet(st, key, IF cond THEN value ELSE List(<<>>), key \in F).st

\* if (cond) await this.set(key, value);   (the result of set is not read)
setIf(st, cond, key, value, F) ==
    IF cond THEN storageSet(st, key, value, key \in F).st ELSE st

\* storage.importData that forgets the presets
importDataNoPresets(st, doc, F, t) ==
    IF ~doc.ok THEN Out(st, Undefined, TRUE)
    ELSE LET s1 == setIf(st, Truthy(Field(doc, "cards")), "cards", Field(doc, "cards"), F)
             s2 == setIf(s1, Truthy(Field(doc, "payments")), "payments", Field(doc, "payments"), F)
             s4 == setIf(s2, Field(doc, "onboardingCompleted") # Undefined,
                         "onboardingCompleted", Field(doc, "onboardingCompleted"), F)
             count == IF Truthy(Field(doc, "payments")) THEN Length(Field(doc, "payments")) ELSE 0
         IN  IF "last_pull_time" \in F THEN Out(s4, Undefined, TRUE)
             ELSE IF "last_backup_info" \in F
                  THEN Out([s4 EXCEPT !.pullTime = t], Undefined, TRUE)
                  ELSE Out(updateBackupInfo([s4 EXCEPT !.pullTime = t], count, t, t),
                           Bool(TRUE), FALSE)

\* storage.importData that marks the pull before it parses the document
importDataMarksFirst(st, doc, F, t) ==
    IF ~doc.ok THEN Out([st EXCEPT !.pullTime = t], Undefined, TRUE)
    ELSE LET s1 == setIf(st, Truthy(Field(doc, "cards")), "cards", Field(doc, "cards"), F)
             s2 == setIf(s1, Truthy(Field(doc, "payments")), "payments", Field(doc, "payments"), F)
             s3 == setIf(s2, Truthy(Field(doc, "userPresets")), "userPresets",
                         Field(doc, "userPresets"), F)
             s4 == setIf(s3, Field(doc, "onboardingCompleted") # Undefined,
                         "onboardingCompleted", Field(doc, "onboardingCompleted"), F)
             count == IF Truthy(Field(doc, "payments")) THEN Length(Field(doc, "payments")) ELSE 0
         IN  IF "last_pull_time" \in F THEN Out(s4, Undefined, TRUE)
             ELSE IF "last_backup_info" \in F
                  THEN Out([s4 EXCEPT !.pullTime = t], Undefined, TRUE)
                  ELSE Out(updateBackupInfo([s4 EXCEPT !.pullTime = t], count, t, t),
                           Bool(TRUE), FALSE)

importData(st, doc, F, t) ==
    IF ~doc.ok THEN Out(st, Undefined, TRUE)
    ELSE LET s1 == setIf(st, Truthy(Field(doc, "cards")), "cards", Field(doc, "cards"), F)
             s2 == setIf(s1, Truthy(Field(doc, "payments")), "payments", Field(doc, "payments"), F)
             s3 == setIf(s2, Truthy(Field(doc, "userPresets")), "userPresets",
                         Field(doc, "userPresets"), F)
             s4 == setIf(s3, Field(doc, "onboardingCompleted") # Undefined,
                         "onboardingCompleted", Field(doc, "onboardingCompleted"), F)
             count == IF Truthy(Field(doc, "payments")) THEN Length(Field(doc, "payments")) ELSE 0
         IN  IF "last_pull_time" \in F THEN Out(s4, Undefined, TRUE)
             ELSE IF "last_backup_info" \in F
                  THEN Out([s4 EXCEPT !.pullTime = t], Undefined, TRUE)
                  ELSE Out(updateBackupInfo([s4 EXCEPT !.pullTime = t], count, t, t),
                           Bool(TRUE), FALSE)

(***************************************************************************)
(* storage.clearAllData()                                                  *)
(***************************************************************************)
\* keys() lists the primary store's keys in ascending order
keyOrder == <<"backup_file_handle", "backup_file_name_fallback", "biometricEnabled",
              "cards", "last_backup_info", "last_pull_time", "onboardingCompleted",
              "payments", "userPresets">>

hasKey(st, k) ==
    CASE k = "backup_file_handle"        -> st.handle # NoHandle
      [] k = "backup_file_name_fallback" -> st.fallbackName # NoName
      [] k = "last_backup_info"          -> st.info # NoInfo
      [] k = "last_pull_time"            -> st.pullTime # 0
      [] OTHER                           -> k \in DOMAIN st.idb

\* del(k) on any key of the primary store
delKey(st, k) ==
    CASE k = "backup_file_handle"        -> [st EXCEPT !.handle = NoHandle]
      [] k = "backup_file_name_fallback" -> [st EXCEPT !.fallbackName = NoName]
      [] k = "last_backup_info"          -> [st EXCEPT !.info = NoInfo]
      [] k = "last_pull_time"            -> [st EXCEPT !.pullTime = 0]
      [] OTHER                           -> [st EXCEPT !.idb = idbDel(st.idb, k)]

RECURSIVE delAll(_, _, _)
delAll(st, ks, F) ==
    IF ks = <<>> THEN Out(st, Bool(TRUE), FALSE)
    ELSE IF ~hasKey(st, Head(ks)) THEN delAll(st, Tail(ks), F)
    ELSE IF Head(ks) \in F THEN Out(st, Bool(FALSE), FALSE)
    ELSE delAll(delKey(st, Head(ks)), Tail(ks), F)

\* storage.clearAllData that does not wipe localStorage
clearAllDataKeepLegacy(st, F) ==
    IF "keys()" \in F THEN Out(st, Bool(FALSE), FALSE)
    ELSE delAll(st, keyOrder, F)

clearAllData(st, F) ==
    IF "keys()" \in F THEN Out(st, Bool(FALSE), FALSE)
    ELSE LET d == delAll(st, keyOrder, F)
         IN  IF d.ret = Bool(TRUE) THEN Out([d.st EXCEPT !.ls = <<>>], Bool(TRUE), FALSE)
             ELSE d

(***************************************************************************)
(* The linked backup file. The file behind a native handle has a content,  *)
(* a modification time and a permission state for this origin: "prompt"    *)
(* (nothing granted), "read" or "readwrite".                               *)
(***************************************************************************)
\* the first instant of the model's clock
T0 == 1000

\* the tolerance of the external-change check, in ms
ChangeBuffer == 1000

FileName == "backup.json"
NoFile   == [exists |-> FALSE, doc |-> NoDoc, lastModified |-> 0, perm |-> "prompt",
             api |-> FALSE]

\* a read check that takes the permission for granted
canReadUnasked(f) == TRUE

\* handle.queryPermission({mode}) === 'granted'
canRead(f)  == f.perm \in {"read", "readwrite"}
\* a permission check that takes write access for granted
canWriteUnasked(f) == TRUE

canWrite(f) == f.perm = "readwrite"

\* the outcome of a sync-manager call: the store and the file it leaves,
\* {success, error, isManual} and the document it wrote or offered
SyncOut(st, f, success, err, manual, doc) ==
    [st |-> st, file |-> f, ret |-> Bool(success), err |-> err, manual |-> manual,
     doc |-> doc]

\* a.download = name; a.click(): the outcome with the name the download suggests
Download(out, name) == [download |-> name] @@ out

\* storage.syncToLinkedFile(). grant: the user's answer should the browser
\* ask for write permission. F: the keys on which the primary backend throws.
syncToLinkedFile(st, f, F, grant, t) ==
    IF "backup_file_handle" \in F THEN SyncOut(st, f, FALSE, "error", FALSE, NoDoc)
    ELSE
    LET c     == collect(st, syncKeys, F, <<>>)
        data  == Doc(c.data, t)
        count == Length(Parse(c.data["payments"]))
    IN  IF c.threw THEN SyncOut(c.st, f, FALSE, "error", FALSE, NoDoc)
        ELSE IF st.handle # NoHandle
        THEN IF ~canWrite(f) /\ ~grant
             THEN SyncOut(c.st, f, FALSE, "Permission denied", FALSE, NoDoc)
             ELSE LET f1 == [f EXCEPT !.perm = "readwrite"]
                      f2 == [f1 EXCEPT !.doc = data, !.lastModified = t]
                  IN  IF ~f.exists THEN SyncOut(c.st, f1, FALSE, "error", FALSE, NoDoc)
                      ELSE IF "last_backup_info" \in F
                      THEN SyncOut(c.st, f2, FALSE, "error", FALSE, data)
                      ELSE SyncOut(updateBackupInfo(c.st, count, f2.lastModified, t),
                                   f2, TRUE, "", FALSE, data)
        ELSE IF "backup_file_name_fallback" \in F
             THEN SyncOut(c.st, f, FALSE, "error", FALSE, NoDoc)
             ELSE IF st.fallbackName = NoName
             THEN SyncOut(c.st, f, FALSE, "No file linked", FALSE, NoDoc)
             ELSE IF "last_backup_info" \in F
             THEN Download(SyncOut(c.st, f, FALSE, "error", FALSE, data), st.fallbackName)
             ELSE Download(SyncOut(updateBackupInfo(c.st, count, t, t), f, TRUE, "", TRUE,
                                   data),
                           st.fallbackName)

\* storage.pullFromLinkedFile() that records the time of the pull as the
\* file's modification time
pullFromLinkedFileStamped(st, f, F, t) ==
    IF st.handle = NoHandle THEN SyncOut(st, f, FALSE, "No handle", FALSE, NoDoc)
    ELSE IF ~f.exists \/ f.perm = "prompt" \/ ~f.doc.ok
    THEN SyncOut(st, f, FALSE, "error", FALSE, NoDoc)
    ELSE LET i == importData(st, [f.doc EXCEPT !.fields =
                                    [k \in DOMAIN f.doc.fields \ {"onboardingCompleted"} |->
                                        f.doc.fields[k]]], F, t)
         IN  SyncOut(i.st, f, ~i.threw, "", FALSE, f.doc)

\* storage.pullFromLinkedFile() that reads the file without asking for a handle
pullFromLinkedFileAnyFile(st, f, F, t) ==
    IF ~f.exists \/ ~f.doc.ok THEN SyncOut(st, f, FALSE, "error", FALSE, NoDoc)
    ELSE LET i == importData(st, f.doc, F, t)
         IN  SyncOut(i.st, f, ~i.threw, "", FALSE, f.doc)

\* storage.pullFromLinkedFile()
pullFromLinkedFile(st, f, F, t) ==
    IF "backup_file_handle" \in F THEN SyncOut(st, f, FALSE, "error", FALSE, NoDoc)
    ELSE IF st.handle = NoHandle THEN SyncOut(st, f, FALSE, "No handle", FALSE, NoDoc)
    ELSE IF ~f.exists \/ ~canRead(f) \/ ~f.doc.ok
    THEN SyncOut(st, f, FALSE, "error", FALSE, NoDoc)
    ELSE
    LET data  == f.doc
        s1    == setIf(st, Truthy(Field(data, "cards")), "cards", Field(data, "cards"), F)
        s2    == setIf(s1, Truthy(Field(data, "payments")), "payments",
                       Field(data, "payments"), F)
        s3    == setIf(s2, Truthy(Field(data, "userPresets")), "userPresets",
                       Field(data, "userPresets"), F)
        count == IF Truthy(Field(data, "payments")) THEN Length(Field(data, "payments")) ELSE 0
    IN  IF "last_pull_time" \in F THEN SyncOut(s3, f, FALSE, "error", FALSE, NoDoc)
        ELSE IF "last_backup_info" \in F
        THEN SyncOut([s3 EXCEPT !.pullTime = t], f, FALSE, "error", FALSE, NoDoc)
        ELSE SyncOut(updateBackupInfo([s3 EXCEPT !.pullTime = t], count, f.lastModified, t),
                     f, TRUE, "", FALSE, data)

\* info.fileLastModified with `get('last_backup_info') || { fileLastModified: 0 }`
recorded(st) == IF st.info = NoInfo THEN 0 ELSE st.info[1].fileLastModified

\* storage.checkForExternalChanges() with the buffer counted as a change
checkForExternalChangesAtLeast(st, f, F) ==
    IF "backup_file_handle" \in F THEN FALSE
    ELSE IF st.handle = NoHandle THEN FALSE
    ELSE IF ~canRead(f) THEN FALSE
    ELSE IF ~f.exists THEN FALSE
    ELSE IF "last_backup_info" \in F THEN FALSE
    ELSE f.lastModified >= recorded(st) + ChangeBuffer

\* storage.checkForExternalChanges()
checkForExternalChanges(st, f, F) ==
    IF "backup_file_handle" \in F THEN FALSE
    ELSE IF st.handle = NoHandle THEN FALSE
    ELSE IF ~canRead(f) THEN FALSE
    ELSE IF ~f.exists THEN FALSE
    ELSE IF "last_backup_info" \in F THEN FALSE
    ELSE f.lastModified > recorded(st) + ChangeBuffer

\* storage.linkBackupFile() where showOpenFilePicker exists. picked: the user
\* chose the file (which grants reading it) rather than cancelling the picker.
linkNative(st, f, picked, F) ==
    IF ~picked \/ ~f.exists THEN SyncOut(st, f, FALSE, "", FALSE, NoDoc)
    ELSE LET f1 == [f EXCEPT !.perm = IF canWrite(f) THEN "readwrite" ELSE "read"]
         IN  IF "backup_file_handle" \in F THEN SyncOut(st, f1, FALSE, "", FALSE, NoDoc)
             ELSE SyncOut([st EXCEPT !.handle = <<[name |-> FileName]>>], f1, TRUE, "",
                          FALSE, NoDoc)

\* storage.linkBackupFile() that saves the file name whatever the import did
linkFallbackNameFirst(st, f, doc, F, t) ==
    IF doc = NoDoc THEN SyncOut(st, f, FALSE, "", FALSE, NoDoc)
    ELSE LET i == importData(st, doc, F, t)
         IN  IF i.threw
             THEN SyncOut([i.st EXCEPT !.fallbackName = FileName], f, FALSE, "", FALSE, doc)
             ELSE SyncOut([i.st EXCEPT !.fallbackName = FileName], f, TRUE, "", TRUE, doc)

\* storage.linkBackupFile() without showOpenFilePicker: the file input.
\* doc: the content of the chosen file, NoDoc when none was chosen.
linkFallback(st, f, doc, F, t) ==
    IF doc = NoDoc THEN SyncOut(st, f, FALSE, "", FALSE, NoDoc)
    ELSE LET i == importData(st, doc, F, t)
         IN  IF i.threw THEN SyncOut(i.st, f, FALSE, "", FALSE, doc)
             ELSE IF "backup_file_name_fallback" \in F
             THEN SyncOut(i.st, f, FALSE, "", FALSE, doc)
             ELSE SyncOut([i.st EXCEPT !.fallbackName = FileName], f, TRUE, "", TRUE, doc)

\* storage.unlinkBackupFile() that leaves last_backup_info behind
unlinkBackupFileKeepInfo(st, F) ==
    IF "backup_file_handle" \in F THEN Out(st, Bool(FALSE), FALSE)
    ELSE IF "backup_file_name_fallback" \in F
    THEN Out([st EXCEPT !.handle = NoHandle], Bool(FALSE), FALSE)
    ELSE Out([st EXCEPT !.handle = NoHandle, !.fallbackName = NoName], Bool(TRUE), FALSE)

\* storage.unlinkBackupFile()
unlinkBackupFile(st, F) ==
    IF "backup_file_handle" \in F THEN Out(st, Bool(FALSE), FALSE)
    ELSE IF "backup_file_name_fallback" \in F
    THEN Out([st EXCEPT !.handle = NoHandle], Bool(FALSE), FALSE)
    ELSE IF "last_backup_info" \in F
    THEN Out([st EXCEPT !.handle = NoHandle, !.fallbackName = NoName], Bool(FALSE), FALSE)
    ELSE Out([st EXCEPT !.handle = NoHandle, !.fallbackName = NoName, !.info = NoInfo],
             Bool(TRUE), FALSE)

\* storage.getBackupStatus(). F: the keys on which the primary backend throws
\* (the call has no try block). last_wallet_sync_time is written by
\* updateWalletSyncTime alone, which is no operation here, so it reads 0.
\* fileName is <<>> for null.
getBackupStatus(st, F) ==
    LET g        == storageGet(st, "payments", "payments" \in F)
        payments == OrElse(g.ret, List(<<>>))
        status   ==
            [lastBackupTime      |-> IF st.info = NoInfo THEN 0 ELSE st.info[1].lastBackupTime,
             lastWalletSyncTime  |-> 0,
             lastPullTime        |-> st.pullTime,
             pendingTransactions |->
                 Length(payments) - (IF st.info = NoInfo THEN 0
                                     ELSE st.info[1].transactionCountAtBackup),
             isLinked            |-> st.handle # NoHandle \/ st.fallbackName # NoName,
             isNative            |-> st.handle # NoHandle,
             fileName            |-> IF st.handle # NoHandle THEN <<st.handle[1].name>>
                                     ELSE IF st.fallbackName # NoName THEN <<st.fallbackName>>
                                     ELSE <<>>]
    IN  IF F \cap {"last_backup_info", "last_wallet_sync_time", "last_pull_time"} # {}
        THEN [st |-> st, status |-> <<>>, threw |-> TRUE]
        ELSE IF g.threw \/ F \cap {"backup_file_handle", "backup_file_name_fallback"} # {}
        THEN [st |-> g.st, status |-> <<>>, threw |-> TRUE]
        ELSE [st |-> g.st, status |-> status, threw |-> FALSE]

(***************************************************************************)
(* The recommendation engine (src/src/engine.js).                          *)
(*                                                                         *)
(* Text is a sequence of characters, so that toLowerCase and includes are  *)
(* computed. Rates, caps and amounts are integers; a quotient is kept as a *)
(* fraction [n, d] (d > 0) and compared exactly.                           *)
(***************************************************************************)
upperCase == <<"A", "B", "C", "D", "E", "F", "G", "H", "I", "J", "K", "L", "M",
               "N", "O", "P", "Q", "R", "S", "T", "U", "V", "W", "X", "Y", "Z">>
lowerCase == <<"a", "b", "c", "d", "e", "f", "g", "h", "i", "j", "k", "l", "m",
               "n", "o", "p", "q", "r", "s", "t", "u", "v", "w", "x", "y", "z">>

\* String.prototype.toLowerCase
toLowerCase(str) ==
    [i \in DOMAIN str |->
        IF \E j \in DOMAIN upperCase : upperCase[j] = str[i]
        THEN lowerCase[CHOOSE j \in DOMAIN upperCase : upperCase[j] = str[i]]
        ELSE str[i]]

\* String.prototype.includes
includes(str, sub) ==
    \E i \in 0..(Len(str) - Len(sub)) : SubSeq(str, i + 1, i + Len(sub)) = sub

\* fractions
Frac(n, d)  == [n |-> n, d |-> d]
FracEq(a, b) == a.n * b.d = b.n * a.d
FracLt(a, b) == a.n * b.d < b.n * a.d

\* a date of the local calendar; months count from 0 as in Date
Date(y, m, d) == [y |-> y, m |-> m, d |-> d]
DateGeq(a, b) ==
    \/ a.y > b.y
    \/ a.y = b.y /\ a.m > b.m
    \/ a.y = b.y /\ a.m = b.m /\ a.d >= b.d

RECURSIVE sumAmounts(_)
sumAmounts(ps) == IF ps = <<>> THEN 0 ELSE Head(ps).amount + sumAmounts(Tail(ps))

\* getSpendingByCardAndPeriod that starts a quarter with the current month
getSpendingThisMonth(payments, cardId, capPeriod, combinedCap, today) ==
    LET startDate ==
            CASE capPeriod = "annual" -> Date(today.y, 0, 1)
              [] OTHER                -> Date(today.y, today.m, 1)
    IN  IF capPeriod \notin {"quarterly", "annual", "monthly", "statement"} THEN 0
        ELSE sumAmounts(SelectSeq(payments,
                 LAMBDA p : p.cardId = cardId /\ DateGeq(p.date, startDate)))

\* getSpendingByCardAndPeriod that charges a combined cap with the spend of
\* every card
getSpendingAcrossCards(payments, cardId, capPeriod, combinedCap, today) ==
    LET quarter   == today.m \div 3
        startDate ==
            CASE capPeriod = "quarterly" -> Date(today.y, quarter * 3, 1)
              [] capPeriod = "annual"    -> Date(today.y, 0, 1)
              [] OTHER                   -> Date(today.y, today.m, 1)
    IN  IF capPeriod \notin {"quarterly", "annual", "monthly", "statement"} THEN 0
        ELSE sumAmounts(SelectSeq(payments,
                 LAMBDA p : (combinedCap \/ p.cardId = cardId) /\ DateGeq(p.date, startDate)))

\* getSpendingByCardAndPeriod(payments, cardId, capPeriod, combinedCap)
getSpendingByCardAndPeriod(payments, cardId, capPeriod, combinedCap, today) ==
    LET quarter   == today.m \div 3
        startDate ==
            CASE capPeriod = "quarterly" -> Date(today.y, quarter * 3, 1)
              [] capPeriod = "annual"    -> Date(today.y, 0, 1)
              [] capPeriod = "monthly"   -> Date(today.y, today.m, 1)
              [] capPeriod = "statement" -> Date(today.y, today.m, 1)
              [] OTHER                   -> Date(0, 0, 1)
    IN  IF capPeriod \notin {"quarterly", "annual", "monthly", "statement"} THEN 0
        ELSE sumAmounts(SelectSeq(payments,
                 LAMBDA p : p.cardId = cardId /\ DateGeq(p.date, startDate)))

\* `$${remaining.toFixed(2)} remaining` for a whole number of dollars
remainingText(remaining) == "$" \o ToString(remaining) \o ".00 remaining"

\* card.rewards.find(r => r.category.toLowerCase().includes('all'))
RECURSIVE find(_)
find(rewards) ==
    IF rewards = <<>> THEN <<>>
    ELSE IF includes(toLowerCase(Head(rewards).category), <<"a", "l", "l">>)
         THEN <<Head(rewards)>>
         ELSE find(Tail(rewards))

\* remaining <= 0: the cap is exhausted and the reward is skipped
capExhaustedBelowZero(remaining) == remaining < 0
capExhausted(remaining) == remaining <= 0

\* the body of card.rewards.forEach with a point valued at half a cent
rewardOptionsPointsHalved(card, ci, ri, payments, purchaseDetails, today) ==
    LET reward   == card.rewards[ri]
        category == purchaseDetails.category
        amount   == purchaseDetails.amount
        merchant == purchaseDetails.merchant
        methodCompatible ==
            \/ reward.method = "any"
            \/ reward.method = purchaseDetails.paymentMethod
            \/ purchaseDetails.paymentMethod = "any"
        merchantMatch ==
            \/ merchant = <<>>
            \/ reward.merchants = <<>>
            \/ includes(toLowerCase(reward.merchants), toLowerCase(merchant))
            \/ includes(toLowerCase(merchant), toLowerCase(reward.merchants))
        categoryMatch ==
            \/ includes(toLowerCase(reward.category), toLowerCase(category))
            \/ includes(toLowerCase(category), toLowerCase(reward.category))
        portalMatch == reward.portal = "" \/ reward.portal = purchaseDetails.portal
        multiplier  == IF card.rewardMultiplier = 0 THEN 1 ELSE card.rewardMultiplier
        isFirstOfMonth == today.d = 1
        boosted ==
            IF isFirstOfMonth /\ card.rentDayBoost
               /\ toLowerCase(reward.category) # <<"r", "e", "n", "t">>
            THEN reward.rate * multiplier * 2
            ELSE reward.rate * multiplier
        spent == getSpendingByCardAndPeriod(payments, card.id, reward.capPeriod,
                                            reward.combinedCap, today)
        remaining      == reward.spendingCap - spent
        fallbackReward == find(card.rewards)
        fallbackRate   == (IF fallbackReward # <<>> THEN fallbackReward[1].rate ELSE 1)
                              * multiplier
        \* highRateEarnings + lowRateEarnings, times 100
        earnings == remaining * (reward.rate * multiplier)
                       + (amount - remaining) * fallbackRate
        effectiveRate ==
            IF reward.spendingCap # 0 /\ remaining < amount
            THEN Frac(earnings, amount) ELSE Frac(boosted, 1)
        capStatus ==
            IF reward.spendingCap # 0 THEN remainingText(remaining) ELSE "unlimited"
    IN  IF ~methodCompatible THEN <<>>
        ELSE IF ~((categoryMatch
                     \/ merchantMatch
                     \/ includes(toLowerCase(reward.category), <<"a", "l", "l">>))
                  /\ portalMatch) THEN <<>>
        ELSE IF reward.spendingCap # 0 /\ capExhausted(remaining) THEN <<>>
        ELSE <<[card |-> ci, reward |-> ri,
                effectiveRate |-> effectiveRate,
                cashbackValue |-> Frac(amount * effectiveRate.n,
                                       (IF reward.unit = "points" THEN 200 ELSE 100)
                                          * effectiveRate.d),
                capStatus |-> capStatus,
                categoryMatch |-> categoryMatch,
                merchantMatch |-> merchantMatch,
                portalMatch |-> portalMatch,
                unit |-> IF reward.unit = "" THEN "cashback" ELSE reward.unit]>>

\* The body of card.rewards.forEach for one reward: the options it pushes
\* (none or one). ci, ri: the places of the card and of the reward.
rewardOptions(card, ci, ri, payments, purchaseDetails, today) ==
    LET reward   == card.rewards[ri]
        category == purchaseDetails.category
        amount   == purchaseDetails.amount
        merchant == purchaseDetails.merchant
        methodCompatible ==
            \/ reward.method = "any"
            \/ reward.method = purchaseDetails.paymentMethod
            \/ purchaseDetails.paymentMethod = "any"
        merchantMatch ==
            \/ merchant = <<>>
            \/ reward.merchants = <<>>
            \/ includes(toLowerCase(reward.merchants), toLowerCase(merchant))
            \/ includes(toLowerCase(merchant), toLowerCase(reward.merchants))
        categoryMatch ==
            \/ includes(toLowerCase(reward.category), toLowerCase(category))
            \/ includes(toLowerCase(category), toLowerCase(reward.category))
        portalMatch == reward.portal = "" \/ reward.portal = purchaseDetails.portal
        multiplier  == IF card.rewardMultiplier = 0 THEN 1 ELSE card.rewardMultiplier
        isFirstOfMonth == today.d = 1
        boosted ==
            IF isFirstOfMonth /\ card.rentDayBoost
               /\ toLowerCase(reward.category) # <<"r", "e", "n", "t">>
            THEN reward.rate * multiplier * 2
            ELSE reward.rate * multiplier
        spent == getSpendingByCardAndPeriod(payments, card.id, reward.capPeriod,
                                            reward.combinedCap, today)
        remaining      == reward.spendingCap - spent
        fallbackReward == find(card.rewards)
        fallbackRate   == (IF fallbackReward # <<>> THEN fallbackReward[1].rate ELSE 1)
                              * multiplier
        \* highRateEarnings + lowRateEarnings, times 100
        earnings == remaining * (reward.rate * multiplier)
                       + (amount - remaining) * fallbackRate
        effectiveRate ==
            IF reward.spendingCap # 0 /\ remaining < amount
            THEN Frac(earnings, amount) ELSE Frac(boosted, 1)
        capStatus ==
            IF reward.spendingCap # 0 THEN remainingText(remaining) ELSE "unlimited"
    IN  IF ~methodCompatible THEN <<>>
        ELSE IF ~((categoryMatch
                     \/ merchantMatch
                     \/ includes(toLowerCase(reward.category), <<"a", "l", "l">>))
                  /\ portalMatch) THEN <<>>
        ELSE IF reward.spendingCap # 0 /\ capExhausted(remaining) THEN <<>>
        ELSE <<[card |-> ci, reward |-> ri,
                effectiveRate |-> effectiveRate,
                cashbackValue |-> Frac(amount * effectiveRate.n, 100 * effectiveRate.d),
                capStatus |-> capStatus,
                categoryMatch |-> categoryMatch,
                merchantMatch |-> merchantMatch,
                portalMatch |-> portalMatch,
                unit |-> IF reward.unit = "" THEN "cashback" ELSE reward.unit]>>

\* cards.forEach(card => card.rewards.forEach(...)): the options in the order
\* they are pushed
RECURSIVE rewardsFrom(_, _, _, _, _, _)
rewardsFrom(card, ci, ri, payments, purchaseDetails, today) ==
    IF ri > Len(card.rewards) THEN <<>>
    ELSE rewardOptions(card, ci, ri, payments, purchaseDetails, today)
            \o rewardsFrom(card, ci, ri + 1, payments, purchaseDetails, today)

RECURSIVE cardsFrom(_, _, _, _, _)
cardsFrom(cards, ci, payments, purchaseDetails, today) ==
    IF ci > Len(cards) THEN <<>>
    ELSE rewardsFrom(cards[ci], ci, 1, payments, purchaseDetails, today)
            \o cardsFrom(cards, ci + 1, payments, purchaseDetails, today)

\* Array.prototype.sort((a, b) => b.cashbackValue - a.cashbackValue): stable,
\* highest cashbackValue first
RECURSIVE insert(_, _)
insert(sorted, o) ==
    IF sorted = <<>> THEN <<o>>
    ELSE IF FracLt(Head(sorted).cashbackValue, o.cashbackValue)
         THEN <<o>> \o sorted
         ELSE <<Head(sorted)>> \o insert(Tail(sorted), o)

RECURSIVE sort(_, _)
sort(sorted, rest) ==
    IF rest = <<>> THEN sorted ELSE sort(insert(sorted, Head(rest)), Tail(rest))

\* getRecommendation that answers an empty wallet with an empty list
getRecommendationNoError(cards, payments, purchaseDetails, today) ==
    [error |-> FALSE,
     options |-> sort(<<>>, cardsFrom(cards, 1, payments, purchaseDetails, today))]

\* getRecommendation(cards, payments, purchaseDetails), called on day today
getRecommendationUnsorted(cards, payments, purchaseDetails, today) ==
    IF Len(cards) = 0 THEN [error |-> TRUE, options |-> <<>>]
    ELSE [error |-> FALSE,
          options |-> cardsFrom(cards, 1, payments, purchaseDetails, today)]
getRecommendation(cards, payments, purchaseDetails, today) ==
    IF Len(cards) = 0 THEN [error |-> TRUE, options |-> <<>>]
    ELSE [error |-> FALSE,
          options |-> sort(<<>>, cardsFrom(cards, 1, payments, purchaseDetails, today))]

(***************************************************************************)
(* The key-value store as a state machine.                                 *)
(***************************************************************************)
NoEng  == <<>>
NoCalls == <<>>
NoMem  == <<>>

Commit(st) ==
    /\ idb' = st.idb
    /\ ls' = st.ls
    /\ handle' = st.handle
    /\ fallbackName' = st.fallbackName
    /\ info' = st.info
    /\ pullTime' = st.pullTime

\* the record of the most recent call: its name, key and argument (for
\* linkBackupFile: whether the user picked a file, for syncToLinkedFile:
\* whether the user grants write access, when the browser asks), what it
\* returned (ret, err, manual), whether it threw, whether a call of the primary backend
\* threw inside it, the document it produced or read, and (for an export and
\* the import of that export) what get returned for the lists beforehand;
\* for a delete, what the backends held for the key beforehand; for a
\* clearAllData, whether a file was linked and the keys of the two backends
NoCall == [op |-> "none", key |-> "", arg |-> Undefined, ret |-> Undefined, err |-> "",
           manual |-> FALSE, threw |-> FALSE, failed |-> FALSE, doc |-> NoDoc,
           download |-> "", before |-> <<>>]

\* get(k) as the app reads it while the primary backend works
Read(st, k) == storageGet(st, k, FALSE).ret

\* what the older, localStorage-only version of the app may have left behind
LegacyInstalls(keys) ==
    UNION {{l \in [K -> {Stringify(v) : v \in Lists \cup Bools}] :
                \A k \in K : Parse(l[k]) \in ValuesOf(k)} : K \in SUBSET keys}

Fresh ==
    /\ idb = <<>>
    /\ handle = NoHandle
    /\ fallbackName = NoName
    /\ info = NoInfo
    /\ pullTime = 0
    /\ now = T0
    /\ last = NoCall
    /\ eng = NoEng
    /\ calls = NoCalls
    /\ mem = NoMem

\* what the two backends hold for key k
Held(st, k) == [primary |-> k \in DOMAIN st.idb, legacy |-> hasItem(st.ls, k),
                flag |-> hasItem(st.ls, migratedKey(k))]

Get(k, fail) ==
    LET o == storageGet(Store, k, fail)
    IN  /\ Commit(o.st)
        /\ last' = [NoCall EXCEPT !.op = "get", !.key = k, !.ret = o.ret, !.threw = o.threw,
                                  !.failed = fail]
        /\ UNCHANGED <<now, file, eng, calls, mem>>

Set(k, v, fail) ==
    LET o == storageSet(Store, k, v, fail)
    IN  /\ Commit(o.st)
        /\ last' = [NoCall EXCEPT !.op = "set", !.key = k, !.arg = v, !.ret = o.ret,
                                  !.failed = fail]
        /\ UNCHANGED <<now, file, eng, calls, mem>>

Delete(k, fail) ==
    LET o == storageDelete(Store, k, fail)
    IN  /\ Commit(o.st)
        /\ last' = [NoCall EXCEPT !.op = "delete", !.key = k, !.ret = o.ret, !.failed = fail,
                                  !.before = Held(Store, k)]
        /\ UNCHANGED <<now, file, eng, calls, mem>>

ClearAllData(F) ==
    LET o == clearAllData(Store, F)
    IN  /\ Commit(o.st)
        /\ last' = [NoCall EXCEPT !.op = "clearAllData", !.ret = o.ret, !.failed = (F # {}),
                                  !.before = [linked  |-> handle # NoHandle \/ fallbackName # NoName,
                                              primary |-> DOMAIN idb,
                                              legacy  |-> DOMAIN ls]]
        /\ UNCHANGED <<now, file, eng, calls, mem>>

ExportData(F) ==
    LET o == exportData(Store, F, now)
    IN  /\ Commit(o.st)
        /\ last' = [NoCall EXCEPT !.op = "exportData", !.failed = (F # {}), !.doc = o.doc,
                                  !.before = [k \in ListKeys |-> Read(Store, k)]]
        /\ UNCHANGED <<now, file, eng, calls, mem>>

ImportData(doc, F) ==
    LET o == importData(Store, doc, F, now)
    IN  /\ Commit(o.st)
        /\ last' = [NoCall EXCEPT !.op = "importData", !.ret = o.ret, !.threw = o.threw,
                                  !.failed = (F # {}), !.doc = doc,
                                  !.before = IF last.op = "exportData" /\ doc = last.doc
                                             THEN last.before ELSE <<>>]
        /\ UNCHANGED <<now, file, eng, calls, mem>>

(***************************************************************************)
(* Spec: get, set, delete and clearAllData on three entities, two lists    *)
(* and a flag; any call of the primary backend may throw.                  *)
(***************************************************************************)
StoreKeys == {"cards", "payments", "biometricEnabled"}

Init == Fresh /\ file = NoFile /\ ls \in LegacyInstalls(StoreKeys)

Next ==
    \/ \E k \in StoreKeys, fail \in BOOLEAN : Get(k, fail)
    \/ \E k \in StoreKeys, fail \in BOOLEAN : \E v \in ValuesOf(k) : Set(k, v, fail)
    \/ \E k \in StoreKeys, fail \in BOOLEAN : Delete(k, fail)
    \/ \E F \in SUBSET ({"keys()"} \cup StoreKeys) : ClearAllData(F)

Spec == Init /\ [][Next]_vars

(***************************************************************************)
(* BackupSpec: exportData and importData over all five entities, between   *)
(* writes of the app, while the primary backend works.                     *)
(***************************************************************************)
\* the documents a user may pick for an import besides the last download
PickedDocs ==
    { BadDoc,
      Doc(<<>>, T0),
      Doc([k \in {"cards"} |-> Stringify(List(Down(MaxItem)))], T0),
      Doc([k \in {"payments", "onboardingCompleted", "theme"} |->
              Stringify(IF k = "payments" THEN List(<<>>) ELSE Bool(k = "theme"))], T0),
      Doc([k \in AppKeys |->
              Stringify(IF k \in ListKeys THEN List(Down(MaxItem)) ELSE Bool(TRUE))], T0),
      Doc([k \in {"cards", "onboardingCompleted"} |-> Stringify(Null)], T0) }

BackupInit == Fresh /\ file = NoFile /\ ls \in LegacyInstalls({"cards", "payments"})

BackupNext ==
    \/ \E k \in AppKeys : \E v \in ValuesOf(k) : Set(k, v, FALSE)
    \/ ExportData({})
    \/ \E doc \in PickedDocs \cup (IF last.op = "exportData" THEN {last.doc} ELSE {}) :
         ImportData(doc, {})

BackupSpec == BackupInit /\ [][BackupNext]_vars

(***************************************************************************)
(* SyncSpec: the linked backup file over time. The user links and unlinks, *)
(* syncs and pulls; other programs edit or remove the file; the browser    *)
(* forgets granted permissions; the clock advances.                        *)
(***************************************************************************)
\* how many times the clock advances
MaxTicks == 2

\* the steps of the clock, in ms
Steps == {1, ChangeBuffer}

\* the number of steps the clock has made
Ticks == ((now - T0) \div ChangeBuffer) + ((now - T0) % ChangeBuffer)

\* what another program may write into the file
ExternalDocs ==
    { BadDoc,
      Doc([k \in {"cards", "payments"} |-> Stringify(List(Down(MaxItem)))], T0) }

SyncResult(op, o) ==
    [NoCall EXCEPT !.op = op, !.ret = o.ret, !.err = o.err, !.manual = o.manual]

\* supportsFileSystemApi(): what the browser offers
supportsFileSystemApi(f) == f.api

\* the user picks the file, or cancels the picker
LinkBackupFile(picked, F) ==
    LET o == IF supportsFileSystemApi(file)
             THEN linkNative(Store, file, picked, F)
             ELSE linkFallback(Store, file, IF picked THEN file.doc ELSE NoDoc, F, now)
    IN  /\ Commit(o.st)
        /\ file' = o.file
        /\ last' = [SyncResult("linkBackupFile", o) EXCEPT !.failed = (F # {}),
                                                         !.arg = Bool(picked)]
        /\ UNCHANGED <<now, eng, calls, mem>>

UnlinkBackupFile(F) ==
    LET o == unlinkBackupFile(Store, F)
    IN  /\ Commit(o.st)
        /\ last' = [NoCall EXCEPT !.op = "unlinkBackupFile", !.ret = o.ret,
                                  !.failed = (F # {}),
                                  !.before = [native   |-> handle # NoHandle,
                                              fallback |-> fallbackName # NoName,
                                              info     |-> info # NoInfo]]
        /\ UNCHANGED <<now, file, eng, calls, mem>>

SyncToLinkedFile(grant, F) ==
    LET o == syncToLinkedFile(Store, file, F, grant, now)
    IN  /\ Commit(o.st)
        /\ file' = o.file
        /\ last' = [SyncResult("syncToLinkedFile", o) EXCEPT
                        !.failed = (F # {}),
                        !.doc = o.doc,
                        !.download = IF "download" \in DOMAIN o THEN o.download ELSE "",
                        !.arg = IF handle # NoHandle /\ file.perm # "readwrite"
                                THEN Bool(grant) ELSE NoCall.arg]
        /\ UNCHANGED <<now, eng, calls, mem>>

PullFromLinkedFile(F) ==
    LET o == pullFromLinkedFile(Store, file, F, now)
    IN  /\ Commit(o.st)
        /\ file' = o.file
        /\ last' = [SyncResult("pullFromLinkedFile", o) EXCEPT
                        !.failed = (F # {}),
                        !.before = [payments |-> Read(Store, "payments")]]
        /\ UNCHANGED <<now, eng, calls, mem>>

CheckForExternalChanges(F) ==
    /\ last' = [NoCall EXCEPT !.op = "checkForExternalChanges",
                              !.ret = Bool(checkForExternalChanges(Store, file, F)),
                              !.failed = (F # {})]
    /\ UNCHANGED <<idb, ls, handle, fallbackName, info, pullTime, now, file, eng, calls, mem>>

\* What the environment does is no call: it clears the record of the last call.

\* another program rewrites the file
ExternalEdit(doc) ==
    /\ file' = [file EXCEPT !.exists = TRUE, !.doc = doc, !.lastModified = now]
    /\ UNCHANGED <<idb, ls, handle, fallbackName, info, pullTime, now, eng, calls, mem>>
    /\ last' = NoCall

\* another program removes the file
ExternalDelete ==
    /\ file.exists
    /\ file' = [file EXCEPT !.exists = FALSE]
    /\ UNCHANGED <<idb, ls, handle, fallbackName, info, pullTime, now, eng, calls, mem>>
    /\ last' = NoCall

\* the browser forgets the permissions of the origin (e.g. all tabs closed)
PermissionReset ==
    /\ file.perm # "prompt"
    /\ file' = [file EXCEPT !.perm = "prompt"]
    /\ UNCHANGED <<idb, ls, handle, fallbackName, info, pullTime, now, eng, calls, mem>>
    /\ last' = NoCall

Tick(d) ==
    /\ Ticks < MaxTicks
    /\ now' = now + d
    /\ UNCHANGED <<idb, ls, handle, fallbackName, info, pullTime, file, eng, calls, mem>>
    /\ last' = NoCall

\* localStorage belongs to the origin: a key another script has left there
OtherScripts == [k \in {"theme"} |-> "dark"]

\* a first load on a machine that holds an older backup file
SyncInit ==
    /\ Fresh
    /\ ls = <<>>
    /\ file \in [exists : {TRUE}, doc : {Doc(<<>>, T0)}, lastModified : {T0},
                 perm : {"prompt"}, api : BOOLEAN]

SyncNext ==
    \/ \E picked \in BOOLEAN : (picked => file.exists) /\ LinkBackupFile(picked, {})
    \/ UnlinkBackupFile({})
    \/ \E grant \in BOOLEAN : SyncToLinkedFile(grant, {})
    \/ PullFromLinkedFile({})
    \/ \E F \in {{}, {"backup_file_handle"}, {"last_backup_info"}} : CheckForExternalChanges(F)
    \/ \E doc \in ExternalDocs : ExternalEdit(doc)
    \/ ExternalDelete
    \/ PermissionReset
    \/ \E d \in Steps : Tick(d)

SyncSpec == SyncInit /\ [][SyncNext]_vars

(***************************************************************************)
(* The handlers of main.js that change cards and payments.                 *)
(***************************************************************************)
\* the in-memory list of main.js, as loadData() read it from the store
Loaded(k) == OrElse(Read(Store, k), List(<<>>)).l

\* a handler of main.js that ends in `await storage.set(key, list)` and
\* calls nothing of the sync manager
ChangeHandler(name, key, list) ==
    LET o == storageSet(Store, key, List(list), FALSE)
    IN  /\ Commit(o.st)
        /\ last' = [NoCall EXCEPT !.op = name, !.key = key, !.arg = List(list),
                                  !.ret = o.ret]
        /\ UNCHANGED <<now, file, eng, calls, mem>>

\* handleCardSubmit: cards.push(card); await storage.set('cards', cards)
HandleCardSubmit ==
    /\ Len(Loaded("cards")) < MaxItem
    /\ ChangeHandler("handleCardSubmit", "cards",
                     <<Len(Loaded("cards")) + 1>> \o Loaded("cards"))

\* the delete button of a card: cards = cards.filter(...); storage.set
DeleteCard ==
    /\ Loaded("cards") # <<>>
    /\ ChangeHandler("deleteCard", "cards", Tail(Loaded("cards")))

\* handlePaymentSubmit: needs a card; payments.unshift(payment); storage.set
HandlePaymentSubmit ==
    /\ Loaded("cards") # <<>>
    /\ Len(Loaded("payments")) < MaxItem
    /\ ChangeHandler("handlePaymentSubmit", "payments",
                     <<Len(Loaded("payments")) + 1>> \o Loaded("payments"))

\* the delete button of a payment
DeletePayment ==
    /\ Loaded("payments") # <<>>
    /\ ChangeHandler("deletePayment", "payments", Tail(Loaded("payments")))

\* processBatchImport: every item of the wallet batch is unshifted, then one
\* storage.set('payments', payments)
ProcessBatchImport ==
    /\ Len(Loaded("payments")) < MaxItem
    /\ ChangeHandler("processBatchImport", "payments", Down(MaxItem))

ChangeHandlers ==
    {"handleCardSubmit", "deleteCard", "handlePaymentSubmit", "deletePayment",
     "processBatchImport"}

(***************************************************************************)
(* LinkSpec: linking, unlinking and clearing while the browser's capability may      *)
(* change between calls (an update, a flag, another browser on the same    *)
(* profile) and single calls of the primary backend may throw.             *)
(***************************************************************************)
\* showOpenFilePicker appears or disappears
Capability(api) ==
    /\ file.api # api
    /\ file' = [file EXCEPT !.api = api]
    /\ UNCHANGED <<idb, ls, handle, fallbackName, info, pullTime, now, eng, calls, mem>>
    /\ last' = NoCall

\* the calls of the primary backend that may throw inside a link or an unlink
LinkFailures ==
    {{}, {"backup_file_handle"}, {"backup_file_name_fallback"}, {"last_backup_info"}}

LinkInit ==
    /\ Fresh
    /\ ls = OtherScripts
    /\ file \in [exists : {TRUE}, doc : {Doc(<<>>, T0)}, lastModified : {T0},
                 perm : {"prompt"}, api : BOOLEAN]

LinkNext ==
    \/ \E api \in BOOLEAN : Capability(api)
    \/ \E picked \in BOOLEAN, F \in LinkFailures :
         (picked => file.exists) /\ LinkBackupFile(picked, F)
    \/ \E F \in LinkFailures : UnlinkBackupFile(F)
    \/ ClearAllData({})
    \/ \E grant \in BOOLEAN : SyncToLinkedFile(grant, {})
    \/ PullFromLinkedFile({})
    \/ CheckForExternalChanges({})
    \/ \E doc \in ExternalDocs : ImportData(doc, {})
    \/ \E doc \in ExternalDocs : ExternalEdit(doc)

LinkSpec == LinkInit /\ [][LinkNext]_vars

(***************************************************************************)
(* PullSpec: the app with a native linked file. The user logs payments,    *)
(* presses Sync or Pull, another program rewrites or removes the file, the *)
(* browser forgets permissions, time passes.                               *)
(***************************************************************************)
\* what another program may leave in the linked file
EditedDocs ==
    ExternalDocs \cup {Doc([k \in {"payments"} |-> Stringify(List(<<>>))], T0)}

PullInit ==
    /\ Fresh
    /\ ls = <<>>
    /\ file = [exists |-> TRUE, doc |-> Doc(<<>>, T0), lastModified |-> T0,
               perm |-> "prompt", api |-> TRUE]

PullNext ==
    \/ handle = NoHandle /\ LinkBackupFile(TRUE, {})
    \/ HandlePaymentSubmit
    \/ \E grant \in BOOLEAN : SyncToLinkedFile(grant, {})
    \/ PullFromLinkedFile({})
    \/ \E doc \in EditedDocs : ExternalEdit(doc)
    \/ ExternalDelete
    \/ PermissionReset
    \/ Tick(1)

PullSpec == PullInit /\ [][PullNext]_vars

(***************************************************************************)
(* LiveSpec: the app with a native linked file and a user who edits cards  *)
(* and payments and may press Sync.                                        *)
(***************************************************************************)
LiveNext ==
    \/ handle = NoHandle /\ LinkBackupFile(TRUE, {})
    \/ UnlinkBackupFile({})
    \/ HandleCardSubmit
    \/ DeleteCard
    \/ HandlePaymentSubmit
    \/ DeletePayment
    \/ ProcessBatchImport
    \/ \E grant \in BOOLEAN : SyncToLinkedFile(grant, {})

LiveSpec == PullInit /\ [][LiveNext]_vars

(***************************************************************************)
(* FlakySpec: pulls and imports during which the primary backend throws on *)
(* some of the writes of the entities.                                     *)
(***************************************************************************)
\* the writes of a pull or an import on which the primary backend may throw
EntityFailures == SUBSET {"cards", "payments"}

FlakyNext ==
    \/ handle = NoHandle /\ LinkBackupFile(TRUE, {})
    \/ SyncToLinkedFile(TRUE, {})
    \/ \E F \in EntityFailures : PullFromLinkedFile(F)
    \/ \E doc \in EditedDocs, F \in EntityFailures : ImportData(doc, F)
    \/ \E doc \in EditedDocs : ExternalEdit(doc)
    \/ HandlePaymentSubmit

FlakySpec == PullInit /\ [][FlakyNext]_vars

(***************************************************************************)
(* AlertSpec: a native linked file that the app alone writes. The user     *)
(* adds a card, logs payments, syncs, pulls and unlinks, time passes, the  *)
(* app checks                                                              *)
(* for external changes, and the write of last_backup_info may throw.      *)
(***************************************************************************)
AlertNext ==
    \/ handle = NoHandle /\ LinkBackupFile(TRUE, {})
    \/ UnlinkBackupFile({})
    \/ HandleCardSubmit
    \/ HandlePaymentSubmit
    \/ \E F \in {{}, {"last_backup_info"}} : SyncToLinkedFile(TRUE, F)
    \/ PullFromLinkedFile({})
    \/ CheckForExternalChanges({})
    \/ \E d \in Steps : Tick(d)

AlertSpec == PullInit /\ [][AlertNext]_vars

(***************************************************************************)
(* FocusSpec: the window regains focus, checkSyncStatus pulls the linked   *)
(* file and reloads the lists, while the user adds or deletes a payment.   *)
(* A handler runs to its next await, where it has a request with the       *)
(* primary backend; the backend serves requests in the order they were     *)
(* made, and the completion resumes the handler up to its next await.      *)
(***************************************************************************)
Threads == {"checkSyncStatus", "handler"}

Other(c) == CHOOSE d \in Threads : d # c

\* a handler: the request it waits for, the value of that request, and
\* whether the request was made while the other handler's was outstanding
Resting == [pc |-> "idle", value |-> <<>>, after |-> FALSE]

Waits(c) == calls[c].pc \notin {"idle", "done"}

\* the handler makes its next request
Request(c, pc, value) == [pc |-> pc, value |-> value, after |-> Waits(Other(c))]

\* one step of handler c: the store, the lists in memory and the handler
\* afterwards; a completed request lets the other handler's request go first
FocusStep(c, st, m, call) ==
    /\ Commit(st)
    /\ mem' = m
    /\ calls' = [d \in Threads |-> IF d = c THEN call
                                   ELSE [calls[d] EXCEPT !.after = (~Waits(c)) /\ @]]
    /\ UNCHANGED <<now, file, last, eng>>

\* cards = await storage.get('cards') || []
Got(k) == OrElse(Read(Store, k), List(<<>>)).l

\* the focus listener: checkForExternalChanges() is true, the user confirms,
\* pullFromLinkedFile() reads the handle and the file and requests
\* set('cards', data.cards)
Focus ==
    /\ calls["checkSyncStatus"].pc = "idle"
    /\ checkForExternalChanges(Store, file, {})
    /\ FocusStep("checkSyncStatus", Store, mem, Request("checkSyncStatus", "setCards", <<>>))

\* pullFromLinkedFile() and loadData() from one await to the next
PullResume ==
    LET c  == "checkSyncStatus"
        pc == calls[c].pc
    IN  /\ Waits(c) /\ ~calls[c].after
        /\ CASE pc = "setCards" ->
                  FocusStep(c, storageSet(Store, "cards", Field(file.doc, "cards"), FALSE).st,
                            mem, Request(c, "setPayments", <<>>))
              [] pc = "setPayments" ->
                  FocusStep(c, storageSet(Store, "payments", Field(file.doc, "payments"),
                                          FALSE).st,
                            mem, Request(c, "setPullTime", <<>>))
              [] pc = "setPullTime" ->
                  FocusStep(c, [Store EXCEPT !.pullTime = now], mem, Request(c, "setInfo", <<>>))
              [] pc = "setInfo" ->
                  FocusStep(c, updateBackupInfo(Store, Length(Field(file.doc, "payments")),
                                                file.lastModified, now),
                            mem, Request(c, "getCards", <<>>))
              [] pc = "getCards" ->
                  FocusStep(c, Store, [mem EXCEPT !.cards = Got("cards")],
                            Request(c, "getPayments", <<>>))
              [] pc = "getPayments" ->
                  FocusStep(c, Store, [mem EXCEPT !.payments = Got("payments")],
                            Request(c, "getRest", <<>>))
              [] pc = "getRest" ->
                  FocusStep(c, Store, mem, [Resting EXCEPT !.pc = "done"])

\* handlePaymentSubmit up to `await storage.set('payments', payments)`
SubmitPayment ==
    /\ calls["handler"].pc = "idle"
    /\ mem.cards # <<>>
    /\ Len(mem.payments) < MaxItem
    /\ LET list == <<Len(mem.payments) + 1>> \o mem.payments
       IN  FocusStep("handler", Store, [mem EXCEPT !.payments = list],
                     Request("handler", "set", list))

\* the delete button of a payment up to `await storage.set('payments', payments)`
RemovePayment ==
    /\ calls["handler"].pc = "idle"
    /\ mem.payments # <<>>
    /\ LET list == Tail(mem.payments)
       IN  FocusStep("handler", Store, [mem EXCEPT !.payments = list],
                     Request("handler", "set", list))

\* the handler's storage.set completes; renderPayments(); updateStats()
HandlerResume ==
    /\ calls["handler"].pc = "set" /\ ~calls["handler"].after
    /\ FocusStep("handler",
                 storageSet(Store, "payments", List(calls["handler"].value), FALSE).st,
                 mem, Resting)

\* what another device may have synced into the file
FocusDocs ==
    {Doc([k \in {"cards", "payments"} |->
            Stringify(IF k = "cards" THEN List(Down(MaxItem)) ELSE v)], T0) : v \in Lists}

\* the app is loaded and at rest: it holds a card and some payments, in the
\* store and in memory; its file was synced at T0 and another device has
\* rewritten it since
FocusInit ==
    /\ \E v \in Lists :
          /\ idb = [k \in {"cards", "payments"} |->
                      IF k = "cards" THEN List(Down(MaxItem)) ELSE v]
          /\ mem = [cards |-> Down(MaxItem), payments |-> v.l]
          /\ info = BackupInfo(T0, Length(v), T0)
    /\ ls = [k \in {migratedKey("cards"), migratedKey("payments")} |-> "true"]
    /\ handle = <<[name |-> FileName]>>
    /\ fallbackName = NoName
    /\ pullTime = 0
    /\ now = T0 + ChangeBuffer + 1
    /\ file \in [exists : {TRUE}, doc : FocusDocs, lastModified : {T0 + ChangeBuffer + 1},
                 perm : {"read", "readwrite"}, api : {TRUE}]
    /\ last = NoCall
    /\ eng = NoEng
    /\ calls = [c \in Threads |-> Resting]

FocusNext ==
    \/ Focus
    \/ PullResume
    \/ SubmitPayment
    \/ RemovePayment
    \/ HandlerResume

FocusSpec == FocusInit /\ [][FocusNext]_vars

(***************************************************************************)
(* RaceSpec: storage.get calls that interleave. A call runs from its start *)
(* to its first await, the request to the primary backend completes, and   *)
(* the call resumes; steps of other calls may come in between. Nothing     *)
(* else writes.                                                            *)
(***************************************************************************)
Callers  == {1, 2}
RaceKeys == {"cards", "payments"}

\* a call: where it stands, its key, the value it holds (parsedValue, the
\* value to set, or what the primary get delivered), the path it took, what
\* it returned, the place of its request among the requests to the primary
\* backend, and whether another call on its key was in flight when it started
Idle == [pc |-> "idle", key |-> "", value |-> Undefined, path |-> "", ret |-> Undefined,
         threw |-> FALSE, ticket |-> 0, overlap |-> FALSE]

\* storage.get that sets the migration flag before it awaits the primary set
getBeginEarlyFlag(st, key) ==
    LET isMigrated == hasItem(st.ls, migratedKey(key)) /\ st.ls[migratedKey(key)] # ""
    IN  IF ~isMigrated /\ hasItem(st.ls, key)
        THEN IF ~IsJson(st.ls[key])
             THEN LET o == getFallback(st, key)
                  IN  [st |-> st,
                       call |-> [Idle EXCEPT !.pc = "done", !.key = key, !.path = "catch",
                                             !.ret = o.ret, !.threw = o.threw]]
             ELSE [st |-> [st EXCEPT !.ls = setItem(st.ls, migratedKey(key), "true")],
                   call |-> [Idle EXCEPT !.pc = "set", !.key = key, !.path = "set",
                                         !.value = Parse(st.ls[key])]]
        ELSE [st |-> st, call |-> [Idle EXCEPT !.pc = "get", !.key = key, !.path = "get"]]

\* storage.get from its start to its first await: the flag and the legacy
\* value are read, then either set(key, parsedValue) or get(key) is requested
getBegin(st, key) ==
    LET isMigrated == hasItem(st.ls, migratedKey(key)) /\ st.ls[migratedKey(key)] # ""
    IN  IF ~isMigrated /\ hasItem(st.ls, key)
        THEN IF ~IsJson(st.ls[key])
             THEN LET o == getFallback(st, key)
                  IN  [st |-> st,
                       call |-> [Idle EXCEPT !.pc = "done", !.key = key, !.path = "catch",
                                             !.ret = o.ret, !.threw = o.threw]]
             ELSE [st |-> st,
                   call |-> [Idle EXCEPT !.pc = "set", !.key = key, !.path = "set",
                                         !.value = Parse(st.ls[key])]]
        ELSE [st |-> st, call |-> [Idle EXCEPT !.pc = "get", !.key = key, !.path = "get"]]

RaceStep(st, c, call) ==
    /\ Commit(st)
    /\ calls' = [calls EXCEPT ![c] = call]
    /\ UNCHANGED <<now, file, last, eng, mem>>

GetBegin(c, key) ==
    /\ calls[c].pc = "idle"
    /\ LET o == getBegin(Store, key) IN RaceStep(o.st, c, o.call)

\* the primary backend completes set(key, parsedValue)
IdbSetDone(c) ==
    /\ calls[c].pc = "set"
    /\ RaceStep([Store EXCEPT !.idb = idbSet(idb, calls[c].key, calls[c].value)], c,
                [calls[c] EXCEPT !.pc = "afterSet"])

\* after `await set`: localStorage.setItem(migratedKey, 'true'); return parsedValue
GetAfterSet(c) ==
    /\ calls[c].pc = "afterSet"
    /\ RaceStep([Store EXCEPT !.ls = setItem(ls, migratedKey(calls[c].key), "true")], c,
                [calls[c] EXCEPT !.pc = "done", !.ret = calls[c].value])

\* the primary backend completes get(key)
IdbGetDone(c) ==
    /\ calls[c].pc = "get"
    /\ RaceStep(Store, c, [calls[c] EXCEPT !.pc = "afterGet",
                                           !.value = idbGet(idb, calls[c].key)])

\* return await get(key)
GetReturn(c) ==
    /\ calls[c].pc = "afterGet"
    /\ RaceStep(Store, c, [calls[c] EXCEPT !.pc = "done", !.ret = calls[c].value])

\* the older version of the app left values under some keys; nothing is
\* migrated yet and no call has started
RaceInit ==
    /\ idb = <<>>
    /\ ls \in LegacyInstalls(RaceKeys)
    /\ handle = NoHandle
    /\ fallbackName = NoName
    /\ info = NoInfo
    /\ pullTime = 0
    /\ now = T0
    /\ file = NoFile
    /\ last = NoCall
    /\ eng = NoEng
    /\ calls = [c \in Callers |-> Idle]
    /\ mem = NoMem

RaceNext ==
    \E c \in Callers :
        \/ \E key \in RaceKeys : GetBegin(c, key)
        \/ IdbSetDone(c)
        \/ GetAfterSet(c)
        \/ IdbGetDone(c)
        \/ GetReturn(c)

RaceSpec == RaceInit /\ [][RaceNext]_vars

(***************************************************************************)
(* WriteRaceSpec: storage.get and storage.set calls that interleave. The   *)
(* primary backend serves its requests in the order they were made (each   *)
(* is a transaction on the one object store); the continuations and the    *)
(* starts of other calls come in any order.                                *)
(***************************************************************************)
\* the call has a request with the primary backend
Pending(c) == calls[c].pc \in {"set", "get", "put"}

\* the request of call c is the oldest one the primary backend holds
Oldest(c) == \A d \in Callers : Pending(d) => calls[c].ticket <= calls[d].ticket

\* a call that starts on key takes the next place in the backend's queue
Started(c, key, call) ==
    LET taken == {calls[d].ticket : d \in Callers}
    IN  [call EXCEPT !.ticket = 1 + CHOOSE t \in taken : \A u \in taken : u <= t,
                     !.overlap = \E d \in Callers \ {c} :
                                     /\ calls[d].pc \notin {"idle", "done"}
                                     /\ calls[d].key = key]

GetStart(c, key) ==
    /\ calls[c].pc = "idle"
    /\ LET o == getBegin(Store, key) IN RaceStep(o.st, c, Started(c, key, o.call))

\* storage.set up to `await set(key, value)`
SetStart(c, key, value) ==
    /\ calls[c].pc = "idle"
    /\ RaceStep(Store, c, Started(c, key, [Idle EXCEPT !.pc = "put", !.key = key,
                                                       !.path = "put", !.value = value]))

\* the primary backend completes the set(key, value) of a storage.set
IdbPutDone(c) ==
    /\ calls[c].pc = "put"
    /\ RaceStep([Store EXCEPT !.idb = idbSet(idb, calls[c].key, calls[c].value)], c,
                [calls[c] EXCEPT !.pc = "afterPut"])

\* after `await set`: localStorage.setItem(`migrated_${key}`, 'true'); return true
SetAfterPut(c) ==
    /\ calls[c].pc = "afterPut"
    /\ RaceStep([Store EXCEPT !.ls = setItem(ls, migratedKey(calls[c].key), "true")], c,
                [calls[c] EXCEPT !.pc = "done", !.ret = Bool(TRUE)])

WriteRaceNext ==
    \E c \in Callers :
        \/ \E key \in RaceKeys : GetStart(c, key)
        \/ \E key \in RaceKeys : \E value \in ValuesOf(key) : SetStart(c, key, value)
        \/ Oldest(c) /\ IdbSetDone(c)
        \/ Oldest(c) /\ IdbPutDone(c)
        \/ Oldest(c) /\ IdbGetDone(c)
        \/ GetAfterSet(c)
        \/ SetAfterPut(c)
        \/ GetReturn(c)

WriteRaceSpec == RaceInit /\ [][WriteRaceNext]_vars

(***************************************************************************)
(* The recommendation engine as a state machine: a wallet, a payment       *)
(* history and a day are given; the user asks for a recommendation.        *)
(***************************************************************************)
MaxTiers    == 2      \* reward tiers of the first card
MaxPayments == 2      \* logged payments

Dining     == <<"D", "i", "n", "i", "n", "g">>
Rent       == <<"R", "e", "n", "t">>
Gas        == <<"G", "a", "s">>
AllOther   == <<"A", "l", "l", " ", "O", "t", "h", "e", "r">>
Everything == <<"E", "v", "e", "r", "y", "t", "h", "i", "n", "g">>

\* a reward tier as the card form and the presets write it
Reward(category, rate, spendingCap, capPeriod) ==
    [rate |-> rate, unit |-> "", category |-> category, categoryMatch |-> "",
     merchants |-> <<>>, method |-> "any", portal |-> "",
     spendingCap |-> spendingCap, capPeriod |-> capPeriod, combinedCap |-> FALSE]

Tiers ==
    {Reward(Dining, 5, 50, "monthly"),
     [Reward(Rent, 1, 100, "annual") EXCEPT !.unit = "points"],
     [Reward(AllOther, 1, 0, "none") EXCEPT !.categoryMatch = "all"],
     [Reward(Everything, 2, 0, "none") EXCEPT !.categoryMatch = "all",
                                              !.method = "apple-pay"]}

\* the reward lists of a card: up to MaxTiers different tiers, in any order
RewardLists ==
    UNION {{r \in [1..n -> Tiers] : \A i, j \in 1..n : r[i] = r[j] => i = j}
              : n \in 0..MaxTiers}

Card(id, rewards, rentDayBoost, rewardMultiplier) ==
    [id |-> id, rewards |-> rewards, rentDayBoost |-> rentDayBoost,
     rewardMultiplier |-> rewardMultiplier]

\* rewardMultiplier 0 stands for a card without the field
Cards ==
    {Card(1, r, b, m) : r \in RewardLists, b \in BOOLEAN, m \in {0, 2}}

OtherCard == Card(2, <<Reward(Dining, 3, 0, "none")>>, FALSE, 0)

Wallets == {<<>>} \cup {<<c>> : c \in Cards} \cup {<<c, OtherCard>> : c \in Cards}

\* today is the 1st or the 15th of May 2026
Days == {Date(2026, 4, 1), Date(2026, 4, 15)}

LoggedPayments ==
    {[cardId |-> 1, amount |-> 50, date |-> Date(2026, 4, 1)],
     [cardId |-> 1, amount |-> 50, date |-> Date(2026, 3, 20)],
     [cardId |-> 2, amount |-> 50, date |-> Date(2026, 4, 1)]}

Histories == UNION {[1..n -> LoggedPayments] : n \in 0..MaxPayments}

Purchases ==
    [category : {Dining, Gas}, amount : {50, 100},
     paymentMethod : {"any", "physical-card"}, merchant : {<<>>}, portal : {""}]

NoPurchase == <<>>
NoResult   == [error |-> FALSE, options |-> <<>>]

\* handleRecommendationSubmit: the form's purchase goes to getRecommendation
GetRecommendation(purchaseDetails) ==
    /\ ~eng.called
    /\ eng' = [eng EXCEPT !.called = TRUE,
                          !.purchaseDetails = purchaseDetails,
                          !.result = getRecommendation(eng.cards, eng.payments,
                                                       purchaseDetails, eng.today)]
    /\ UNCHANGED <<idb, ls, handle, fallbackName, info, pullTime, now, file, last, calls, mem>>

EngineInit ==
    /\ idb = <<>>
    /\ ls = <<>>
    /\ handle = NoHandle
    /\ fallbackName = NoName
    /\ info = NoInfo
    /\ pullTime = 0
    /\ now = T0
    /\ file = NoFile
    /\ last = NoCall
    /\ calls = NoCalls
    /\ mem = NoMem
    /\ eng \in [cards : Wallets, payments : Histories, today : Days,
                purchaseDetails : {NoPurchase}, result : {NoResult},
                called : {FALSE}]

EngineNext == \E purchaseDetails \in Purchases : GetRecommendation(purchaseDetails)

EngineSpec == EngineInit /\ [][EngineNext]_vars

(***************************************************************************)
(* SpendSpec: getSpendingByCardAndPeriod applied to payment histories that *)
(* straddle the starts of the year, the quarter and the month.             *)
(***************************************************************************)
\* payments with amounts that tell them apart in a sum
SpendPayments ==
    {[cardId |-> 1, amount |-> 1,  date |-> Date(2025, 11, 31)],
     [cardId |-> 1, amount |-> 2,  date |-> Date(2026, 0, 1)],
     [cardId |-> 1, amount |-> 4,  date |-> Date(2026, 2, 31)],
     [cardId |-> 1, amount |-> 8,  date |-> Date(2026, 3, 1)],
     [cardId |-> 1, amount |-> 16, date |-> Date(2026, 3, 30)],
     [cardId |-> 1, amount |-> 32, date |-> Date(2026, 4, 1)],
     [cardId |-> 2, amount |-> 64, date |-> Date(2026, 4, 10)]}

SpendHistories == UNION {[1..n -> SpendPayments] : n \in 0..MaxPayments}

\* today: in January, on the 1st of May, later in May, at the end of June
SpendDays == {Date(2026, 0, 15), Date(2026, 4, 1), Date(2026, 4, 20), Date(2026, 5, 30)}

CapPeriods == {"none", "monthly", "quarterly", "annual", "statement"}

\* the engine asks for the period-to-date spend of a card
GetSpending(cardId, capPeriod, combinedCap) ==
    /\ ~eng.called
    /\ eng' = [eng EXCEPT !.called = TRUE, !.cardId = cardId, !.capPeriod = capPeriod,
                          !.spent = getSpendingByCardAndPeriod(eng.payments, cardId,
                                        capPeriod, combinedCap, eng.today)]
    /\ UNCHANGED <<idb, ls, handle, fallbackName, info, pullTime, now, file, last, calls, mem>>

SpendInit ==
    /\ idb = <<>>
    /\ ls = <<>>
    /\ handle = NoHandle
    /\ fallbackName = NoName
    /\ info = NoInfo
    /\ pullTime = 0
    /\ now = T0
    /\ file = NoFile
    /\ last = NoCall
    /\ calls = NoCalls
    /\ mem = NoMem
    /\ eng \in [payments : SpendHistories, today : SpendDays, called : {FALSE},
                cardId : {0}, capPeriod : {""}, spent : {0}]

SpendNext ==
    \E cardId \in {1, 2}, capPeriod \in CapPeriods, combinedCap \in BOOLEAN :
        GetSpending(cardId, capPeriod, combinedCap)

SpendSpec == SpendInit /\ [][SpendNext]_vars

(***************************************************************************)
(* MatchSpec: one card with one tier, the tier and the purchase varying in *)
(* method, portal, category, merchants and cap.                            *)
(***************************************************************************)
Shell     == <<"S", "h", "e", "l", "l">>
ShellUber == <<"S", "h", "e", "l", "l", ",", " ", "U", "b", "e", "r">>

MatchTiers ==
    {[Reward(c, 3, cap, IF cap = 0 THEN "none" ELSE "monthly")
         EXCEPT !.merchants = ms, !.method = me, !.portal = po] :
        c \in {Dining, AllOther}, cap \in {0, 50}, ms \in {<<>>, ShellUber},
        me \in {"any", "apple-pay"}, po \in {"", "chase"}}

MatchWallets == {<<Card(1, <<t>>, FALSE, 0)>> : t \in MatchTiers}

\* nothing spent, or the 50 of the cap spent this month
MatchHistories == {<<>>, <<[cardId |-> 1, amount |-> 50, date |-> Date(2026, 4, 1)]>>}

MatchPurchases ==
    [category : {Dining, Gas}, amount : {50},
     paymentMethod : {"any", "apple-pay", "physical-card"},
     merchant : {<<>>, toLowerCase(Shell)}, portal : {"", "chase"}]

MatchInit ==
    /\ idb = <<>>
    /\ ls = <<>>
    /\ handle = NoHandle
    /\ fallbackName = NoName
    /\ info = NoInfo
    /\ pullTime = 0
    /\ now = T0
    /\ file = NoFile
    /\ last = NoCall
    /\ calls = NoCalls
    /\ mem = NoMem
    /\ eng \in [cards : MatchWallets, payments : MatchHistories,
                today : {Date(2026, 4, 15)},
                purchaseDetails : {NoPurchase}, result : {NoResult},
                called : {FALSE}]

MatchNext == \E purchaseDetails \in MatchPurchases : GetRecommendation(purchaseDetails)

MatchSpec == MatchInit /\ [][MatchNext]_vars

(***************************************************************************)
(* BatchSpec: processBatchImport applied to batches from the iOS Shortcut, *)
(* on one day and the next. A payment is its amount, merchant and date;    *)
(* an amount is a number or NaN.                                           *)
(***************************************************************************)
Num(n) == [nan |-> FALSE, n |-> n]
NaN    == [nan |-> TRUE, n |-> 0]

\* a === b on amounts
StrictEq(a, b) == ~a.nan /\ ~b.nan /\ a.n = b.n

\* parseFloat(item.amt); amt is <<>> for an item without the field
parseFloat(amt) ==
    CASE amt = <<"5">>   -> Num(5)
      [] amt = <<"5.0">> -> Num(5)
      [] amt = <<"12">>  -> Num(12)
      [] OTHER           -> NaN

\* the length of a day in ms, and new Date(t).toDateString() as a day number
MsPerDay == 86400000
toDateString(t) == t \div MsPerDay

\* what the Shortcut may hand over: items with amt as text or, as the
\* clipboard validation also admits, without amt; merch may be missing
BatchItems == [amt : {<<"5">>, <<"5.0">>, <<"12">>, <<>>}, merch : {"Cafe", ""}]
Batches    == {<<i>> : i \in BatchItems} \cup {<<i, j>> : i, j \in BatchItems}

\* the loop of processBatchImport over the batch, on the in-memory payments
RECURSIVE importItems(_, _, _)
importItems(payments, batch, t) ==
    IF batch = <<>> THEN payments
    ELSE LET item       == Head(batch)
             newPayment == [amount   |-> parseFloat(item.amt),
                            merchant |-> IF item.merch # "" THEN item.merch
                                         ELSE "Unknown Merchant",
                            date     |-> t]
             exists     == \E i \in DOMAIN payments :
                              /\ StrictEq(payments[i].amount, newPayment.amount)
                              /\ payments[i].merchant = newPayment.merchant
                              /\ toDateString(payments[i].date) = toDateString(newPayment.date)
         IN  importItems(IF exists THEN payments ELSE <<newPayment>> \o payments,
                         Tail(batch), t)

\* processBatchImport(batch): the loop, then storage.set('payments', payments)
\* (updateWalletSyncTime writes last_wallet_sync_time, which is not part of
\* the state here)
ApplyBatch(batch) ==
    /\ Len(mem.payments) <= MaxPayments
    /\ LET list == importItems(mem.payments, batch, now)
           o    == storageSet(Store, "payments", List(list), FALSE)
       IN  /\ Commit(o.st)
           /\ mem' = [mem EXCEPT !.payments = list]
           /\ last' = [NoCall EXCEPT !.op = "processBatchImport", !.key = "payments",
                                     !.ret = o.ret,
                                     !.before = [batch |-> batch,
                                                 count |-> Len(mem.payments)]]
    /\ UNCHANGED <<now, file, eng, calls>>

\* the next local midnight passes
Midnight ==
    /\ toDateString(now) < toDateString(T0) + 1
    /\ now' = (toDateString(now) + 1) * MsPerDay
    /\ last' = NoCall
    /\ UNCHANGED <<idb, ls, handle, fallbackName, info, pullTime, file, eng, calls, mem>>

\* a first load: nothing stored, no payments in memory
BatchInit ==
    /\ idb = <<>>
    /\ ls = <<>>
    /\ handle = NoHandle
    /\ fallbackName = NoName
    /\ info = NoInfo
    /\ pullTime = 0
    /\ now = T0
    /\ file = NoFile
    /\ last = NoCall
    /\ eng = NoEng
    /\ calls = NoCalls
    /\ mem = [cards |-> <<>>, payments |-> <<>>]

BatchNext ==
    \/ \E batch \in Batches : ApplyBatch(batch)
    \/ Midnight

BatchSpec == BatchInit /\ [][BatchNext]_vars

(***************************************************************************)
(* Properties of the store (Spec).                                         *)
(***************************************************************************)
\* key k has a legacy value and no migration flag
Unmigrated(l, k) == hasItem(l, k) /\ ~hasItem(l, migratedKey(k))

\* C1: Migration idempotence. A get(K) on a key with a legacy value V and no
\* migration flag returns V and, the primary write succeeding, leaves V in the
\* primary store and the migration flag set; a get(K) on a flagged key returns
\* the primary store's value and changes nothing, whatever the legacy store
\* holds for K by then.
MigrationIdempotence ==
    [][\A k \in StoreKeys : (last'.op = "get" /\ last'.key = k) =>
          /\ Unmigrated(ls, k) => (~last'.threw /\ last'.ret = Parse(ls[k]))
          /\ (Unmigrated(ls, k) /\ ~last'.failed) =>
                /\ idbGet(idb', k) = Parse(ls[k])
                /\ hasItem(ls', migratedKey(k))
                /\ ls'[k] = ls[k]
          /\ (hasItem(ls, migratedKey(k)) /\ ~last'.failed) =>
                /\ last'.ret = idbGet(idb, k)
                /\ idb' = idb
                /\ ls' = ls]_vars

\* a get on a migrated key has just returned the primary value although the
\* legacy store holds another value for the key
MigratedGetIgnoresLegacy ==
    \E k \in StoreKeys :
        /\ last.op = "get" /\ last.key = k /\ ~last.failed
        /\ hasItem(ls, migratedKey(k)) /\ hasItem(ls, k)
        /\ last.ret = idbGet(idb, k)
        /\ Parse(ls[k]) # last.ret

\* C8: After set(K, v) returned true the migration flag of K is set and a
\* get(K) returns v and migrates nothing, whatever the legacy store holds
\* for K (the primary backend working during the get).
SetThenGet ==
    \A k \in StoreKeys : (last.op = "set" /\ last.key = k /\ last.ret = Bool(TRUE)) =>
        /\ hasItem(ls, migratedKey(k))
        /\ storageGet(Store, k, FALSE).ret = last.arg
        /\ storageGet(Store, k, FALSE).st = Store

\* set has just succeeded on a key for which the legacy store holds another value
SetOverLegacy ==
    \E k \in StoreKeys :
        /\ last.op = "set" /\ last.key = k /\ last.ret = Bool(TRUE)
        /\ hasItem(ls, k) /\ Parse(ls[k]) # last.arg

\* C9: When the primary backend throws during set(K, v), set does not throw,
\* returns false, stores the serialized v under K in the legacy store and
\* changes neither the primary store nor the migration flag; set returns true
\* only when the primary write succeeded.
SetFallback ==
    [][\A k \in StoreKeys : (last'.op = "set" /\ last'.key = k) =>
          /\ ~last'.threw
          /\ last'.failed =>
                /\ last'.ret = Bool(FALSE)
                /\ ls' = setItem(ls, k, Stringify(last'.arg))
                /\ Parse(ls'[k]) = last'.arg
                /\ idb' = idb
                /\ hasItem(ls', migratedKey(k)) <=> hasItem(ls, migratedKey(k))
          /\ last'.ret = Bool(TRUE) =>
                /\ ~last'.failed
                /\ idbGet(idb', k) = last'.arg]_vars

\* a set has just failed on a key that holds another value in the primary store
SetFailedOverPrimary ==
    \E k \in StoreKeys :
        /\ last.op = "set" /\ last.key = k /\ last.failed /\ last.ret = Bool(FALSE)
        /\ k \in DOMAIN idb /\ idb[k] # last.arg
        /\ ls[k] = Stringify(last.arg)

\* C10: When the primary backend throws during get(K), get returns the parsed
\* legacy value of K (null when the legacy store has none) and changes neither
\* the migration flag, nor the legacy store, nor the primary store.
GetFallback ==
    [][\A k \in StoreKeys : (last'.op = "get" /\ last'.key = k /\ last'.failed) =>
          /\ ~last'.threw
          /\ last'.ret = IF hasItem(ls, k) THEN Parse(ls[k]) ELSE Null
          /\ idb' = idb
          /\ ls' = ls]_vars

\* the backend has just thrown under a get that was migrating a legacy value
GetFailedWhileMigrating ==
    \E k \in StoreKeys :
        /\ last.op = "get" /\ last.key = k /\ last.failed
        /\ Unmigrated(ls, k)
        /\ last.ret = Parse(ls[k])

\* nothing is stored for key k: no primary value, no legacy value, no flag
Gone(k) == Held(Store, k) = [primary |-> FALSE, legacy |-> FALSE, flag |-> FALSE]

\* C11: No resurrection after delete. Once delete(K) has returned true, the
\* primary value, the legacy value and the migration flag of K are gone, and
\* as long as no set(K, .) is made they stay gone and every get(K) returns
\* none (undefined, or null when the primary backend throws) without throwing.
NoResurrection ==
    [][\A k \in StoreKeys :
          /\ (last'.op = "delete" /\ last'.key = k /\ last'.ret = Bool(TRUE)) => Gone(k)'
          /\ (Gone(k) /\ ~(last'.op = "set" /\ last'.key = k))
                => /\ Gone(k)'
                   /\ (last'.op = "get" /\ last'.key = k)
                         => last'.ret \in {Undefined, Null} /\ ~last'.threw]_vars

\* delete(K) has just returned true for a key that had been migrated: it had
\* a primary value, a legacy value and the flag, and all three are gone
DeletedMigratedKey ==
    /\ last.op = "delete" /\ last.ret = Bool(TRUE)
    /\ last.before = [primary |-> TRUE, legacy |-> TRUE, flag |-> TRUE]
    /\ Gone(last.key)

(***************************************************************************)
(* Properties of the backup document (BackupSpec).                         *)
(***************************************************************************)
\* the import that has just completed read the document of the export before it
ImportedOwnExport == last.op = "importData" /\ last.before # <<>> /\ ~last.threw

ImportAppliesPresent ==
    (last.op = "importData" /\ ~last.threw) =>
        \A k \in AppKeys :
            (k \in DOMAIN last.doc.fields /\ Field(last.doc, k) \in ValuesOf(k))
                => Read(Store, k) = Field(last.doc, k)

\* C13: importData leaves unmentioned entities untouched. For each of the
\* five entities absent from the imported document, get(key) after the import
\* is get(key) before it; and the import creates no entry, in either backend,
\* for a key other than a recognized key of the document.
ImportFrame ==
    [][last'.op = "importData" =>
          /\ \A k \in AppKeys :
                k \notin DOMAIN last'.doc.fields => Read(Store, k)' = Read(Store, k)
          /\ (DOMAIN idb' \ DOMAIN idb) \subseteq (AppKeys \cap DOMAIN last'.doc.fields)
          /\ (DOMAIN ls' \ DOMAIN ls) \subseteq
                {migratedKey(k) : k \in AppKeys \cap DOMAIN last'.doc.fields}]_vars

\* a document with an unrecognized key and without cards was imported into a
\* store that holds cards: the cards are still there, the key is nowhere
ImportedUnrecognizedKey ==
    /\ last.op = "importData" /\ ~last.threw
    /\ "theme" \in DOMAIN last.doc.fields
    /\ "cards" \notin DOMAIN last.doc.fields
    /\ Read(Store, "cards") = List(Down(MaxItem))
    /\ "theme" \notin DOMAIN idb \cup DOMAIN ls

\* C14: An importData of a text that is not valid JSON rejects and writes
\* nothing: the entities in both backends, last_pull_time and
\* last_backup_info are as before.
ImportRejectsBadJson ==
    [][(last'.op = "importData" /\ ~last'.doc.ok) =>
          /\ last'.threw
          /\ idb' = idb /\ ls' = ls
          /\ pullTime' = pullTime /\ info' = info]_vars

\* an import of invalid JSON was rejected by a store that holds cards and has
\* never recorded a backup or a pull
RejectedBadJson ==
    /\ last.op = "importData" /\ last.threw /\ ~last.doc.ok
    /\ Read(Store, "cards") = List(Down(MaxItem))
    /\ pullTime = 0 /\ info = NoInfo

\* C15: The document produced by exportData() conforms to the export schema
\* in every store state: version is "2.0.0", cards, payments and userPresets
\* are the stored lists (the empty list for an absent one), and a flag that
\* is included is a boolean.
ExportSchema ==
    (last.op = "exportData" /\ last.doc # NoDoc) =>
        /\ last.doc.version = "2.0.0"
        /\ \A k \in ListKeys :
              /\ k \in DOMAIN last.doc.fields
              /\ Field(last.doc, k) = OrElse(last.before[k], List(<<>>))
        /\ \A k \in FlagKeys \cap DOMAIN last.doc.fields : Field(last.doc, k) \in Bools

(***************************************************************************)
(* Properties of the linked file (SyncSpec).                               *)
(***************************************************************************)
\* C7: With a native handle linked, read permission granted and the file
\* readable, checkForExternalChanges() returns true exactly when the file's
\* lastModified is greater than the recorded fileLastModified + 1000 ms (the
\* recorded value being 0 without backup info), so false at exactly +1000; it
\* returns false when no handle is linked (nothing, or only a fallback name),
\* when read permission is not granted and when reading the handle fails.
ExternalChangeThreshold ==
    last.op = "checkForExternalChanges" =>
        last.ret = Bool(/\ handle # NoHandle
                        /\ canRead(file)
                        /\ file.exists
                        /\ ~last.failed
                        /\ file.lastModified >
                              (IF info = NoInfo THEN 0 ELSE info[1].fileLastModified)
                                 + ChangeBuffer)

\* the check has just answered false for a readable linked file modified
\* exactly 1000 ms after the recorded time
CheckedAtBuffer ==
    /\ last.op = "checkForExternalChanges" /\ ~last.failed
    /\ handle # NoHandle /\ canRead(file) /\ file.exists
    /\ info # NoInfo
    /\ file.lastModified = info[1].fileLastModified + ChangeBuffer
    /\ last.ret = Bool(FALSE)

\* C16: After clearAllData() has returned true the primary store has no
\* keys and the legacy store is empty, keys of other scripts and migration
\* flags included; get(K) returns none for every K and getBackupStatus()
\* reports isLinked = false.
ClearedEverything ==
    (last.op = "clearAllData" /\ last.ret = Bool(TRUE)) =>
        /\ idb = <<>> /\ ls = <<>>
        /\ handle = NoHandle /\ fallbackName = NoName /\ info = NoInfo /\ pullTime = 0
        /\ \A k \in AppKeys : Read(Store, k) = Undefined
        /\ ~getBackupStatus(Store, {}).threw
        /\ ~getBackupStatus(Store, {}).status.isLinked

\* clearAllData() has just returned true for a linked store that held
\* payments, their migration flag and the key of another script
ClearedLinkedStore ==
    /\ last.op = "clearAllData" /\ last.ret = Bool(TRUE)
    /\ last.before.linked
    /\ "payments" \in last.before.primary
    /\ {"theme", migratedKey("payments")} \subseteq last.before.legacy
    /\ ls = <<>>

\* C20: a native sync writes the file only with readwrite permission. With
\* a handle stored, when write access is neither held nor granted on
\* request, syncToLinkedFile() returns {success: false, error: 'Permission
\* denied'} without throwing and the file, the handle and last_backup_info
\* stay as they were; whenever the call changes the file, write access was
\* held before or granted during the call.
DeniedSyncWritesNothing ==
    [][(handle # NoHandle /\ last'.op = "syncToLinkedFile") =>
          LET granted == file.perm = "readwrite" \/ last'.arg = Bool(TRUE)
          IN  /\ ~granted
                    => /\ last'.ret = Bool(FALSE) /\ last'.err = "Permission denied"
                       /\ ~last'.threw
                       /\ file' = file /\ handle' = handle /\ info' = info
              /\ (file'.doc # file.doc \/ file'.lastModified # file.lastModified)
                    => granted /\ file'.perm = "readwrite"]_vars

\* a sync to a file that was synced before has just been denied: the browser
\* had forgotten the permission and the user refused it
DeniedSyncAfterReset ==
    /\ last.op = "syncToLinkedFile" /\ last.arg = Bool(FALSE)
    /\ last.err = "Permission denied"
    /\ handle # NoHandle /\ info # NoInfo
    /\ file.exists /\ file.perm # "readwrite"

(***************************************************************************)
(* Properties of linking (LinkSpec).                                       *)
(***************************************************************************)
Unlinked == handle = NoHandle /\ fallbackName = NoName

\* C17: At most one linked-file representation is active. In every state
\* reached by linking, unlinking, syncing, pulling and importing, with the
\* capability chosen by the environment before each link, the native handle
\* and the fallback file name are not both stored.
OneLinkRepresentation == ~(handle # NoHandle /\ fallbackName # NoName)

\* C18: linkBackupFile() from Unlinked. With the picker available and a file
\* picked the handle is stored and returned and nothing else is written;
\* without it and a file picked, the store is what one importData of the
\* file leaves plus the fallback name, and the fallback marker is returned,
\* if that import succeeds; when nothing is picked, the import fails or a
\* call of the primary backend throws, none is returned and the store stays
\* Unlinked (untouched when nothing was picked or the text is no JSON).
LinkFromUnlinked ==
    [][(Unlinked /\ last'.op = "linkBackupFile") =>
          LET picked == last'.arg = Bool(TRUE)
              native == supportsFileSystemApi(file)
              i      == importData(Store, file.doc, {}, now)
              linked == last'.ret = Bool(TRUE)
          IN  /\ (linked /\ ~last'.manual)
                    => /\ native /\ picked
                       /\ Store' = [Store EXCEPT !.handle = <<[name |-> FileName]>>]
              /\ (linked /\ last'.manual)
                    => /\ ~native /\ picked /\ fallbackName' = FileName /\ handle' = NoHandle
                       /\ ~last'.failed => ~i.threw /\ Store' = [i.st EXCEPT !.fallbackName = FileName]
              /\ ~linked => Unlinked'
              /\ (picked /\ ~last'.failed)
                    => linked = (native \/ file.doc.ok)
              /\ (~picked \/ (~native /\ ~file.doc.ok)) => (~linked /\ Store' = Store)]_vars

\* linkBackupFile() through the file input has just imported the chosen
\* file into a store that was not linked, and saved its name
LinkedFallbackAfterImport ==
    /\ last.op = "linkBackupFile" /\ last.ret = Bool(TRUE) /\ last.manual
    /\ fallbackName = FileName /\ handle = NoHandle
    /\ Read(Store, "payments") = List(Down(MaxItem))
    /\ info # NoInfo

\* C19: unlinkBackupFile() from a linked state, the primary backend not
\* throwing, returns true and removes the handle, the fallback name and
\* last_backup_info, so that getBackupStatus() reports isLinked = false,
\* isNative = false, fileName = null and lastBackupTime = 0; the application
\* data (cards, payments, userPresets and the flags) stays as it was.
UnlinkFromLinked ==
    [][(~Unlinked /\ last'.op = "unlinkBackupFile" /\ ~last'.failed) =>
          LET s == getBackupStatus(Store, {})'
          IN  /\ last'.ret = Bool(TRUE)
              /\ handle' = NoHandle /\ fallbackName' = NoName /\ info' = NoInfo
              /\ ~s.threw
              /\ ~s.status.isLinked /\ ~s.status.isNative
              /\ s.status.fileName = <<>> /\ s.status.lastBackupTime = 0
              /\ idb' = idb /\ ls' = ls
              /\ \A k \in AppKeys : Read(Store, k)' = Read(Store, k)]_vars

\* a file that was linked and synced, with payments stored, has just been
\* unlinked
UnlinkedSyncedFile ==
    /\ last.op = "unlinkBackupFile" /\ last.ret = Bool(TRUE)
    /\ last.before.info /\ (last.before.native \/ last.before.fallback)
    /\ Read(Store, "payments") = List(Down(MaxItem))

LinkedFallback == handle = NoHandle /\ fallbackName # NoName

\* length of the stored payments, as `data.payments.length` after `|| []`
PaymentCount(st) == Length(OrElse(Read(st, "payments"), List(<<>>)))

\* C21: With nothing linked, syncToLinkedFile() and pullFromLinkedFile()
\* return {success: false, error} without throwing, offer no download and
\* write no file, and leave the application data, last_pull_time and
\* last_backup_info as they were.
NothingLinked ==
    [][(Unlinked /\ last'.op \in {"syncToLinkedFile", "pullFromLinkedFile"}) =>
          /\ last'.ret = Bool(FALSE) /\ ~last'.threw
          /\ last'.err = (IF last'.op = "syncToLinkedFile" THEN "No file linked"
                          ELSE "No handle")
          /\ last'.doc = NoDoc /\ last'.download = ""
          /\ file' = file
          /\ \A k \in AppKeys : Read(Store, k)' = Read(Store, k)
          /\ pullTime' = pullTime /\ info' = info
          /\ Unlinked']_vars

\* a sync was refused for a store that holds payments and has no file
\* linked, while a readable file with other content exists
SyncRefusedUnlinked ==
    /\ last.op = "syncToLinkedFile" /\ last.err = "No file linked"
    /\ Unlinked
    /\ Read(Store, "payments") = List(Down(MaxItem))
    /\ file.exists /\ file.doc.ok /\ file.doc.fields = <<>>

\* C22: In Linked-Fallback, syncToLinkedFile() offers the document of the
\* store as a download under the file name chosen at link time, records
\* last_backup_info with the current number of payments and returns
\* {success: true, isManual: true}, the file itself untouched;
\* pullFromLinkedFile() fails and changes nothing stored;
\* checkForExternalChanges() returns false.
FallbackDegrades ==
    [][LinkedFallback =>
          /\ last'.op = "syncToLinkedFile"
                => /\ last'.ret = Bool(TRUE) /\ last'.manual /\ ~last'.threw
                   /\ last'.download = fallbackName
                   /\ last'.doc.ok
                   /\ \A k \in ListKeys :
                         Field(last'.doc, k) = OrElse(Read(Store, k), List(<<>>))
                   /\ info' # NoInfo
                   /\ info'[1].transactionCountAtBackup = PaymentCount(Store)
                   /\ info'[1].lastBackupTime = now
                   /\ file' = file
                   /\ \A k \in AppKeys : Read(Store, k)' = Read(Store, k)
          /\ last'.op = "pullFromLinkedFile"
                => /\ last'.ret = Bool(FALSE) /\ ~last'.threw
                   /\ idb' = idb /\ ls' = ls /\ info' = info /\ pullTime' = pullTime
                   /\ LinkedFallback'
          /\ last'.op = "checkForExternalChanges"
                => last'.ret = Bool(FALSE)]_vars

\* a fallback sync has just offered the download and recorded the payments
\* of a store that holds some, while the file was rewritten by another
\* program
FallbackSyncDownloaded ==
    /\ last.op = "syncToLinkedFile" /\ last.manual /\ last.download = FileName
    /\ LinkedFallback
    /\ info # NoInfo /\ info[1].transactionCountAtBackup = MaxItem
    /\ Field(last.doc, "payments") = List(Down(MaxItem))

(***************************************************************************)
(* Properties of pulling from the native file (PullSpec).                  *)
(***************************************************************************)
\* C23: A successful pullFromLinkedFile() overwrites without merging. Each
\* of cards, payments and userPresets that the file holds as a list becomes
\* exactly the file's list, whatever the store held; a key absent from the
\* file keeps its stored value; last_backup_info records the time of the
\* pull, the number of payments of the file (0 without payments) and the
\* file's lastModified; the file is not written.
PullOverwrites ==
    [][(last'.op = "pullFromLinkedFile" /\ last'.ret = Bool(TRUE)) =>
          /\ \A k \in ListKeys :
                /\ Field(file.doc, k) \in Lists => Read(Store, k)' = Field(file.doc, k)
                /\ k \notin DOMAIN file.doc.fields => Read(Store, k)' = Read(Store, k)
          /\ info' = BackupInfo(now,
                                IF "payments" \in DOMAIN file.doc.fields
                                THEN Length(Field(file.doc, "payments")) ELSE 0,
                                file.lastModified)
          /\ pullTime' = now
          /\ file' = file]_vars

\* a pull has just emptied the payments of a store that held some: the file,
\* rewritten by another program with an empty list, was pulled over them
PullDiscardedLocalEdit ==
    /\ last.op = "pullFromLinkedFile" /\ last.ret = Bool(TRUE)
    /\ last.before.payments = List(Down(MaxItem))
    /\ Read(Store, "payments") = List(<<>>)
    /\ Read(Store, "cards") = List(Down(MaxItem))
    /\ "cards" \notin DOMAIN file.doc.fields
    /\ T0 < file.lastModified /\ file.lastModified < now
    /\ info = BackupInfo(now, 0, file.lastModified)

\* C24: When the file behind the stored handle cannot be read (it is gone or
\* the permission is) or its text is not valid JSON, pullFromLinkedFile()
\* returns {success: false, error} without throwing, the handle stays
\* stored and both backends, last_pull_time and last_backup_info are as
\* before.
PullFailsCleanly ==
    [][(/\ handle # NoHandle
        /\ last'.op = "pullFromLinkedFile"
        /\ (~file.exists \/ file.perm = "prompt" \/ ~file.doc.ok)) =>
          /\ last'.ret = Bool(FALSE) /\ last'.err # "" /\ ~last'.threw
          /\ handle' = handle
          /\ idb' = idb /\ ls' = ls
          /\ pullTime' = pullTime /\ info' = info
          /\ file' = file]_vars

\* a pull has just failed on a file whose permission the browser forgot,
\* for a store that holds payments and was synced to that file before
PullFailedOnRevokedFile ==
    /\ last.op = "pullFromLinkedFile" /\ last.ret = Bool(FALSE)
    /\ handle # NoHandle
    /\ file.exists /\ file.doc.ok /\ file.perm = "prompt"
    /\ Read(Store, "payments") = List(Down(MaxItem))
    /\ info # NoInfo /\ pullTime # 0

(***************************************************************************)
(* Properties of live sync (LiveSpec).                                     *)
(***************************************************************************)
\* the lists of the file are those of the store
FileMatchesStore ==
    /\ file.exists /\ file.doc.ok
    /\ \A k \in {"cards", "payments"} :
          Field(file.doc, k) = OrElse(Read(Store, k), List(<<>>))

\* C25: Live sync. With a native file linked and write access granted, once
\* a handler that changes cards or payments has completed (no handler leaves
\* work pending) the linked file holds the cards and payments of the store,
\* without the user pressing Sync.
LiveSync ==
    (/\ last.op \in ChangeHandlers
     /\ handle # NoHandle
     /\ file.exists /\ canWrite(file)) => FileMatchesStore

(***************************************************************************)
(* Properties of the recommendation engine (EngineSpec).                   *)
(***************************************************************************)
\* the options of the most recent recommendation
Options == eng.result.options

\* the (card, tier) places of the wallet
Places == {<<ci, ri>> \in (1..2) \X (1..(MaxTiers + 1)) :
              ci \in DOMAIN eng.cards /\ ri \in DOMAIN eng.cards[ci].rewards}

TierAt(pl) == eng.cards[pl[1]].rewards[pl[2]]

\* the period-to-date spend charged to the tier at a place
SpentAt(pl) ==
    getSpendingByCardAndPeriod(eng.payments, eng.cards[pl[1]].id, TierAt(pl).capPeriod,
                               TierAt(pl).combinedCap, eng.today)

RemainingAt(pl) == TierAt(pl).spendingCap - SpentAt(pl)

PlaceOf(o) == <<o.card, o.reward>>

MultiplierOf(pl) ==
    IF eng.cards[pl[1]].rewardMultiplier = 0 THEN 1 ELSE eng.cards[pl[1]].rewardMultiplier

\* the tier's cap is partly used up and the purchase exceeds what is left
Blended(pl) ==
    /\ TierAt(pl).spendingCap > 0
    /\ 0 < RemainingAt(pl)
    /\ RemainingAt(pl) < eng.purchaseDetails.amount

\* (remaining x tierRate + (amount - remaining) x fallbackRate) / amount
BlendOf(pl, tierRate, fallbackRate) ==
    Frac(RemainingAt(pl) * tierRate
            + (eng.purchaseDetails.amount - RemainingAt(pl)) * fallbackRate,
         eng.purchaseDetails.amount)

\* C3: Cap exhaustion is a hard skip. A tier with spendingCap > 0 whose
\* period-to-date spend on its card is at least the cap yields no option,
\* whatever the purchase.
CapExhaustionSkips ==
    eng.called =>
        \A pl \in Places :
            (TierAt(pl).spendingCap > 0 /\ SpentAt(pl) >= TierAt(pl).spendingCap)
                => \A k \in DOMAIN Options : PlaceOf(Options[k]) # pl

\* a recommendation was made for a purchase in the category of an exhausted
\* tier, and the tier's card still yields an option from another tier
ExhaustedTierSkipped ==
    /\ eng.called
    /\ \E pl \in Places :
          /\ TierAt(pl).spendingCap > 0
          /\ SpentAt(pl) >= TierAt(pl).spendingCap
          /\ TierAt(pl).category = eng.purchaseDetails.category
          /\ \E k \in DOMAIN Options : Options[k].card = pl[1]

\* the rate of the card's first tier marked categoryMatch "all", 1 without one
MarkedCatchAllRate(ci) ==
    LET rewards == eng.cards[ci].rewards
        marked  == {ri \in DOMAIN rewards : rewards[ri].categoryMatch = "all"}
    IN  IF marked = {} THEN 1
        ELSE rewards[CHOOSE ri \in marked : \A rj \in marked : ri <= rj].rate

\* C4: Blended rate. An option from a tier with 0 < remaining cap < amount has
\* effectiveRate (remaining x tierRate + (amount - remaining) x fallbackRate)
\* / amount, fallbackRate being the rate of the card's tier marked
\* categoryMatch "all" (1 without one), both rates times the card's
\* multiplier, and cashbackValue amount x effectiveRate / 100.
BlendedRate ==
    eng.called =>
        \A k \in DOMAIN Options :
            LET pl == PlaceOf(Options[k])
                m  == MultiplierOf(pl)
            IN  Blended(pl) =>
                  /\ FracEq(Options[k].effectiveRate,
                            BlendOf(pl, TierAt(pl).rate * m, MarkedCatchAllRate(pl[1]) * m))
                  /\ FracEq(Options[k].cashbackValue,
                            Frac(eng.purchaseDetails.amount * Options[k].effectiveRate.n,
                                 100 * Options[k].effectiveRate.d))

\* C5: Rent-day boost. On the 1st of the month an option of a rentDayBoost
\* card from a tier whose category is not "rent" (case-insensitive) uses
\* double the tier's rate x multiplier, also as the within-cap rate of a
\* blend; a "rent" tier, any other day and a card without rentDayBoost use
\* the rate x multiplier itself.
RentDayBoost ==
    eng.called =>
        \A k \in DOMAIN Options :
            LET pl      == PlaceOf(Options[k])
                card    == eng.cards[pl[1]]
                m       == MultiplierOf(pl)
                doubled == /\ eng.today.d = 1
                           /\ card.rentDayBoost
                           /\ toLowerCase(TierAt(pl).category) # <<"r", "e", "n", "t">>
                rate    == TierAt(pl).rate * m * (IF doubled THEN 2 ELSE 1)
                fb      == (IF find(card.rewards) # <<>> THEN find(card.rewards)[1].rate ELSE 1) * m
            IN  IF Blended(pl)
                THEN \/ FracEq(Options[k].effectiveRate, BlendOf(pl, rate, fb))
                     \/ doubled /\ FracEq(Options[k].effectiveRate, BlendOf(pl, rate, 2 * fb))
                ELSE FracEq(Options[k].effectiveRate, Frac(rate, 1))

\* C6: Ranking. The returned list is ordered by non-increasing cashbackValue,
\* and options of equal cashbackValue stand in discovery order: by the place
\* of the card in the wallet, then by the place of the tier in the card.
Ranking ==
    (eng.called /\ ~eng.result.error) =>
        \A i, j \in DOMAIN Options :
            i < j =>
                /\ ~FracLt(Options[i].cashbackValue, Options[j].cashbackValue)
                /\ FracEq(Options[i].cashbackValue, Options[j].cashbackValue)
                     => \/ Options[i].card < Options[j].card
                        \/ /\ Options[i].card = Options[j].card
                           /\ Options[i].reward < Options[j].reward

\* a list of three or more options in which two options tie and an option
\* discovered later stands before one discovered earlier
RankedWithTie ==
    /\ eng.called
    /\ Len(Options) >= 3
    /\ \E i, j \in DOMAIN Options :
          i < j /\ FracEq(Options[i].cashbackValue, Options[j].cashbackValue)
    /\ \E i, j \in DOMAIN Options :
          /\ i < j
          /\ \/ Options[i].card > Options[j].card
             \/ Options[i].card = Options[j].card /\ Options[i].reward > Options[j].reward

\* the tier at a place yields an option for the purchase
Yields(pl) ==
    rewardOptions(eng.cards[pl[1]], pl[1], pl[2], eng.payments, eng.purchaseDetails,
                  eng.today) # <<>>

\* C26: getRecommendation distinguishes its two empty outcomes. With an
\* empty card list the result is the error object, never a list; with at
\* least one card it is a list, empty exactly when no tier of any card
\* yields an option, and otherwise holding one option for every yielding
\* tier.
TwoEmptyOutcomes ==
    eng.called =>
        /\ eng.result.error <=> eng.cards = <<>>
        /\ eng.cards # <<>> =>
              /\ Options = <<>> <=> ~\E pl \in Places : Yields(pl)
              /\ {PlaceOf(Options[k]) : k \in DOMAIN Options} = {pl \in Places : Yields(pl)}
              /\ Len(Options) = Cardinality({pl \in Places : Yields(pl)})

\* a wallet whose card has a tier got the empty list: the tier asks for a
\* payment method the purchase does not use
NoEligibleMatch ==
    /\ eng.called /\ ~eng.result.error
    /\ Places # {}
    /\ Options = <<>>

\* C28: Uncapped or within-cap yield. An option from a tier without a cap has
\* capStatus 'unlimited', one from a tier whose remaining cap is at least the
\* amount has the remaining amount as capStatus; either has effectiveRate =
\* rate x multiplier (1 when the card has none), doubled where the rent-day
\* boost applies, and cashbackValue = amount x effectiveRate / 100, whatever
\* the tier's unit.
FullRateYield ==
    eng.called =>
        \A k \in DOMAIN Options :
            LET pl      == PlaceOf(Options[k])
                tier    == TierAt(pl)
                amount  == eng.purchaseDetails.amount
                doubled == /\ eng.today.d = 1
                           /\ eng.cards[pl[1]].rentDayBoost
                           /\ toLowerCase(tier.category) # <<"r", "e", "n", "t">>
                rate    == tier.rate * MultiplierOf(pl) * (IF doubled THEN 2 ELSE 1)
            IN  (tier.spendingCap = 0 \/ RemainingAt(pl) >= amount) =>
                  /\ Options[k].capStatus =
                        (IF tier.spendingCap = 0 THEN "unlimited"
                         ELSE remainingText(RemainingAt(pl)))
                  /\ FracEq(Options[k].effectiveRate, Frac(rate, 1))
                  /\ FracEq(Options[k].cashbackValue, Frac(amount * rate, 100))

\* a points tier within its cap and an uncapped cashback tier of the same
\* card, both at 1 x multiplier 2, yield the same value for the purchase
PointsValuedAsCashback ==
    /\ eng.called
    /\ \E i, j \in DOMAIN Options :
          /\ Options[i].unit = "points" /\ Options[j].unit = "cashback"
          /\ Options[i].card = Options[j].card
          /\ TierAt(PlaceOf(Options[i])).spendingCap > 0
          /\ RemainingAt(PlaceOf(Options[i])) >= eng.purchaseDetails.amount
          /\ TierAt(PlaceOf(Options[j])).spendingCap = 0
          /\ Options[i].capStatus # "unlimited" /\ Options[j].capStatus = "unlimited"
          /\ FracEq(Options[i].cashbackValue, Options[j].cashbackValue)
          /\ FracEq(Options[i].effectiveRate, Frac(2, 1))

(***************************************************************************)
(* Properties of eligibility (MatchSpec).                                  *)
(***************************************************************************)
\* two texts substring-match in either direction, ignoring case
SubstringMatch(a, b) ==
    \/ includes(toLowerCase(a), toLowerCase(b))
    \/ includes(toLowerCase(b), toLowerCase(a))

\* the eligibility of the tier at a place for the purchase: method, portal,
\* category or merchant or catch-all, cap
Eligible(pl) ==
    LET tier     == TierAt(pl)
        purchase == eng.purchaseDetails
    IN  /\ \/ tier.method = "any"
           \/ tier.method = purchase.paymentMethod
           \/ purchase.paymentMethod = "any"
        /\ tier.portal = "" \/ tier.portal = purchase.portal
        /\ \/ SubstringMatch(tier.category, purchase.category)
           \/ /\ purchase.merchant # <<>> /\ tier.merchants # <<>>
              /\ SubstringMatch(tier.merchants, purchase.merchant)
           \/ includes(toLowerCase(tier.category), <<"a", "l", "l">>)
        /\ tier.spendingCap = 0 \/ RemainingAt(pl) > 0

\* C27: Eligibility predicate. A (card, tier) pair yields an option if and
\* only if the method is compatible, the tier has no portal or the
\* purchase's, the category matches or the purchase's merchant matches the
\* tier's merchant list or the tier is a catch-all, and the cap, if any, is
\* not exhausted.
EligibilityPredicate ==
    eng.called =>
        \A pl \in Places :
            (\E k \in DOMAIN Options : PlaceOf(Options[k]) = pl) <=> Eligible(pl)

(***************************************************************************)
(* Properties of the period-to-date spend (SpendSpec).                     *)
(***************************************************************************)
\* a calendar day as one number
DayNumber(date) == date.y * 10000 + date.m * 100 + date.d

\* the first day of the window of a cap period that holds the day
WindowStart(capPeriod, today) ==
    CASE capPeriod = "annual"    -> today.y * 10000 + 1
      [] capPeriod = "quarterly" ->
            today.y * 10000 + 1
               + 100 * (IF today.m <= 2 THEN 0 ELSE IF today.m <= 5 THEN 3
                        ELSE IF today.m <= 8 THEN 6 ELSE 9)
      [] OTHER                   -> today.y * 10000 + today.m * 100 + 1

\* the sum of the amounts of the payments at the places of a set
RECURSIVE SumAt(_, _)
SumAt(ps, places) ==
    IF places = {} THEN 0
    ELSE LET i == CHOOSE i \in places : TRUE
         IN  ps[i].amount + SumAt(ps, places \ {i})

\* C29: Period-to-date spend. For quarterly, annual, monthly and statement
\* caps the spend is the sum of the amounts of exactly the payments of the
\* card dated on or after the first day of the current quarter (months 0-2,
\* 3-5, 6-8, 9-11), of the current year, resp. of the current month; other
\* cards' payments and earlier payments do not count.
PeriodToDateSpend ==
    (eng.called /\ eng.capPeriod # "none") =>
        eng.spent =
            SumAt(eng.payments,
                  {i \in DOMAIN eng.payments :
                      /\ eng.payments[i].cardId = eng.cardId
                      /\ DayNumber(eng.payments[i].date)
                            >= WindowStart(eng.capPeriod, eng.today)})

\* the quarterly spend at the end of June counts the payment of April 1 and
\* leaves out the one of March 31
QuarterlySpendFromApril ==
    /\ eng.called /\ eng.capPeriod = "quarterly" /\ eng.cardId = 1
    /\ eng.today = Date(2026, 5, 30)
    /\ \E i, j \in DOMAIN eng.payments :
          /\ eng.payments[i].date = Date(2026, 2, 31)
          /\ eng.payments[j].date = Date(2026, 3, 1)
    /\ eng.spent = 8

(***************************************************************************)
(* Properties of interleaved calls (RaceSpec).                             *)
(***************************************************************************)
\* the store before any call: the legacy values alone
BeforeCalls ==
    [Store EXCEPT !.idb = <<>>,
                  !.ls = [k \in DOMAIN ls \cap RaceKeys |-> ls[k]]]

\* C30: Concurrent migration is harmless. Once two get(K) calls on the same
\* unmigrated legacy key K with value V have completed, however their steps
\* interleaved, both have returned V without throwing, the primary store
\* holds V, the migration flag is set, and the store is the one a single
\* get(K) leaves.
ConcurrentMigration ==
    \A k \in RaceKeys :
        (/\ hasItem(ls, k)
         /\ \A c \in Callers : calls[c].pc = "done" /\ calls[c].key = k) =>
            /\ \A c \in Callers : calls[c].ret = Parse(ls[k]) /\ ~calls[c].threw
            /\ idbGet(idb, k) = Parse(ls[k])
            /\ hasItem(ls, migratedKey(k)) /\ ls[migratedKey(k)] = "true"
            /\ Store = storageGet(BeforeCalls, k, FALSE).st

\* both calls found the key unmigrated, both wrote the primary store and
\* both have returned
BothMigrated ==
    /\ \A c \in Callers : calls[c].pc = "done" /\ calls[c].path = "set"
    /\ calls[1].key = calls[2].key
    /\ calls[1].ret = List(Down(MaxItem))

(***************************************************************************)
(* Properties of a set that overlaps a migrating get (WriteRaceSpec).      *)
(***************************************************************************)
\* C31: A migrating get never clobbers a newer write. Once a set(K, v) that
\* returned true and a get(K) that found a legacy value and no migration
\* flag have both completed, having overlapped, the primary store holds v
\* and a later get(K) returns v.
NewerWriteWins ==
    \A g, s \in Callers :
        (/\ calls[g].pc = "done" /\ calls[g].path = "set"
         /\ calls[s].pc = "done" /\ calls[s].path = "put" /\ calls[s].ret = Bool(TRUE)
         /\ calls[g].key = calls[s].key
         /\ calls[g].overlap \/ calls[s].overlap) =>
            /\ idbGet(idb, calls[s].key) = calls[s].value
            /\ Read(Store, calls[s].key) = calls[s].value

(***************************************************************************)
(* Properties of degraded writes (Spec).                                   *)
(***************************************************************************)
\* C32: Read-your-writes across a degraded write. When set(K, v) has
\* returned false, the get(K) that follows it returns v, whether the primary
\* backend throws again or works, and whether or not K was migrated before.
DegradedReadYourWrites ==
    [][(/\ last.op = "set" /\ last.ret = Bool(FALSE)
        /\ last'.op = "get" /\ last'.key = last.key) => last'.ret = last.arg]_vars

(***************************************************************************)
(* Properties of pulls and imports over a failing backend (FlakySpec).     *)
(***************************************************************************)
\* the document the last pull or import read
DocRead == IF last.op = "importData" THEN last.doc ELSE file.doc

\* C33: Success means persisted. When pullFromLinkedFile() has returned
\* success: true or importData() has resolved, the primary store holds the
\* document's value for each of cards, payments and userPresets that the
\* document holds, also when the primary backend threw during the call.
SuccessMeansPersisted ==
    (\/ last.op = "pullFromLinkedFile" /\ last.ret = Bool(TRUE)
     \/ last.op = "importData" /\ ~last.threw) =>
        \A k \in ListKeys :
            Truthy(Field(DocRead, k)) => idbGet(idb, k) = Field(DocRead, k)

(***************************************************************************)
(* Properties of the change check when only the app writes (AlertSpec).    *)
(***************************************************************************)
\* C34: No self-inflicted change alerts. In AlertSpec nothing but the app
\* writes the file, and last_backup_info exists exactly when a native sync or
\* a pull has succeeded since the file was linked: from then on, whatever
\* the app does, checkForExternalChanges() returns false.
NoSelfInflictedAlert ==
    (last.op = "checkForExternalChanges" /\ info # NoInfo) => last.ret = Bool(FALSE)

(***************************************************************************)
(* Properties of the backup status (LiveSpec).                             *)
(***************************************************************************)
\* C35: getBackupStatus().pendingTransactions, the stored payment count
\* minus the count recorded at the last backup, is never negative, whatever
\* payments the user adds or deletes and whenever the app syncs or unlinks.
PendingNeverNegative ==
    getBackupStatus(Store, {}).status.pendingTransactions >= 0

(***************************************************************************)
(* Properties of the lists in memory (FocusSpec).                          *)
(***************************************************************************)
\* C36: Quiescent consistency of app state. Whenever no handler is in
\* flight, the cards and payments lists in memory are what get('cards') and
\* get('payments') return from the store, also when a pull on focus
\* interleaved with adding or deleting a payment.
QuiescentConsistency ==
    (\A c \in Threads : ~Waits(c)) =>
        /\ mem.cards = Got("cards")
        /\ mem.payments = Got("payments")

(***************************************************************************)
(* Properties of the wallet batch import (BatchSpec).                      *)
(***************************************************************************)
\* C37: Wallet batch import de-duplicates. Applying the batch that was just
\* applied a second time on the same day adds no payment.
BatchDeduplicates ==
    [][(/\ last.op = "processBatchImport" /\ last'.op = "processBatchImport"
        /\ last'.before.batch = last.before.batch
        /\ now' = now) => Len(mem'.payments) = Len(mem.payments)]_vars

(***************************************************************************)
(* Properties of purchases without a merchant (MatchSpec).                 *)
(***************************************************************************)
\* C38: A purchase that names no merchant gets no option from a tier whose
\* category neither substring-matches the purchase's category nor contains
\* "all": a wallet whose tiers all fail the category test returns an empty
\* list.
CategoryFilters ==
    (/\ eng.called
     /\ eng.purchaseDetails.merchant = <<>>
     /\ \A pl \in Places :
           /\ ~SubstringMatch(TierAt(pl).category, eng.purchaseDetails.category)
           /\ ~includes(toLowerCase(TierAt(pl).category), <<"a", "l", "l">>)) =>
        ~eng.result.error /\ Options = <<>>

(***************************************************************************)
(* The engine over wallets whose capped tiers carry either value of the    *)
(* combinedCap flag, and the properties of the flag (CapSpec).             *)
(***************************************************************************)
\* capped and uncapped tiers, each with combinedCap set and cleared
CapTiers ==
    {[t EXCEPT !.combinedCap = b] :
        t \in {Reward(Dining, 5, 50, "monthly"), Reward(Gas, 2, 100, "quarterly"),
               [Reward(AllOther, 1, 0, "none") EXCEPT !.categoryMatch = "all"]},
        b \in BOOLEAN}

\* a first card of one or two tiers of different categories beside the second card
CapWallets ==
    {<<Card(1, r, FALSE, 0), OtherCard>> :
        r \in {<<t>> : t \in CapTiers}
               \cup {r \in CapTiers \X CapTiers : r[1].category # r[2].category}}

CapHistories == {<<>>} \cup {<<p>> : p \in LoggedPayments}
                    \cup {<<p, q>> : p \in LoggedPayments, q \in LoggedPayments}

CapInit ==
    /\ idb = <<>>
    /\ ls = <<>>
    /\ handle = NoHandle
    /\ fallbackName = NoName
    /\ info = NoInfo
    /\ pullTime = 0
    /\ now = T0
    /\ file = NoFile
    /\ last = NoCall
    /\ calls = NoCalls
    /\ mem = NoMem
    /\ eng \in [cards : CapWallets, payments : CapHistories, today : Days,
                purchaseDetails : {NoPurchase}, result : {NoResult},
                called : {FALSE}]

CapNext == \E purchaseDetails \in Purchases : GetRecommendation(purchaseDetails)

CapSpec == CapInit /\ [][CapNext]_vars

\* the wallet with combinedCap flipped on the tier at a place
FlipCombinedCap(cards, pl) ==
    [cards EXCEPT ![pl[1]].rewards[pl[2]].combinedCap = ~@]

\* C39: The combinedCap flag does not influence the result. For every
\* wallet, history and purchase, getRecommendation on the wallet with
\* combinedCap flipped on any one tier returns the list it returned.
CombinedCapIgnored ==
    eng.called =>
        \A pl \in Places :
            getRecommendation(FlipCombinedCap(eng.cards, pl), eng.payments,
                              eng.purchaseDetails, eng.today) = eng.result

\* a capped tier that was charged with its card's spend yields an option
\* while another card has spend in the same window
CappedTierBesideOtherSpend ==
    /\ eng.called
    /\ \E pl \in Places :
          /\ TierAt(pl).spendingCap # 0 /\ SpentAt(pl) > 0
          /\ \E k \in DOMAIN Options : PlaceOf(Options[k]) = pl
          /\ \E i \in DOMAIN eng.payments :
                /\ eng.payments[i].cardId # eng.cards[pl[1]].id
                /\ eng.payments[i].date = eng.today

(***************************************************************************)
(* The rent-day doubling on the blended path (EngineSpec).                 *)
(***************************************************************************)
\* C40: Rent-day doubling survives blending. On the 1st of the month an
\* option of a rentDayBoost card from a non-rent tier with 0 < remaining cap
\* < amount has its within-cap portion at double the tier's rate x
\* multiplier: its effectiveRate is at least (remaining x 2 x rate x
\* multiplier + (amount - remaining) x fallback x multiplier) / amount, and so
\* at least the blend of the undoubled rates that any other day gives.
DoublingSurvivesBlending ==
    eng.called =>
        \A k \in DOMAIN Options :
            LET pl   == PlaceOf(Options[k])
                card == eng.cards[pl[1]]
                m    == MultiplierOf(pl)
                fb   == (IF find(card.rewards) # <<>> THEN find(card.rewards)[1].rate ELSE 1) * m
            IN  (/\ eng.today.d = 1
                 /\ card.rentDayBoost
                 /\ toLowerCase(TierAt(pl).category) # <<"r", "e", "n", "t">>
                 /\ Blended(pl)) =>
                    /\ ~FracLt(Options[k].effectiveRate, BlendOf(pl, 2 * TierAt(pl).rate * m, fb))
                    /\ ~FracLt(Options[k].effectiveRate, BlendOf(pl, TierAt(pl).rate * m, fb))

====
